---- MODULE Spec2Model ----
(***************************************************************************)
(* Model of the tax-sale scraper scripts (lgb-scrape-NoMetro.js and its    *)
(* variants).  Strings are sequences of one-character strings, so that     *)
(* trimming, upper-casing, regular-expression replacement, substring       *)
(* search and joining are computed character by character as the           *)
(* JavaScript code computes them.  The empty sequence stands for every     *)
(* falsy string value of the code ('' , null, undefined).                  *)
(***************************************************************************)
EXTENDS Integers, Sequences, FiniteSets, TLC

VARIABLES
  nPc, nRaw, nOnce, nTwice,         \* normalizeCountyName applied once and twice
  gcPc,                             \* getAllCounties: the stage about to run, or "done" / "threw"
  gcResp,                           \* getAllCounties: the response the returned list was computed from
  gcReq,                            \* getAllCounties: requests issued, per endpoint
  gcF1, gcF2,                       \* getAllCounties: the local `filtered` of stage 1 and of stage 2
  gcSet,                            \* getAllCounties: the local `set` of stage 3
  gcPage,                           \* getAllCounties: pages of property_sales requested so far
  gcResult,                         \* getAllCounties: the returned list
  aPc,                              \* loop body of main: "fetch" before the detail request, "end" after the body
  county, uidMap, p,                \* loop body of main: the county, its uid -> address map, the listing
  details,                          \* loop body of main: what getPropertyDetails returned
  chosenAddress, addressSource,     \* loop body of main: the locals of the address precedence
  results,                          \* loop body of main: the records pushed
  vPc, vLegal, vOther,              \* vacancy tests: the legal description and the second text
  vMatch, vIsVacant,                \* vacancy tests: detectVacancy's and isVacantLot's results
  lPc, apiResponse, searchName,     \* extractLienInfo: its two arguments
  lienInfo,                         \* extractLienInfo: the summary it returned
  sortPc, collected, written,       \* final sort of main: the records collected, the records as written
  pgPc, pgOffset, pgAll,            \* getProperties: the locals `offset` and `all`
  pgLog,                            \* getProperties: per request, its offset and the page it was answered with
  allowInsecure,                    \* lien script: process.env.ALLOW_INSECURE === '1'
  client,                           \* lien script: the trust policy of the agent of the global `client`
  rowIdx, enrichedResults,          \* processCSV: the row being processed, the records pushed
  attempt, calls, waits,            \* processCSV: `attempt`, the calls of getTexasFileData and the backoffs for this row
  tfPc, tfLog,                      \* getTexasFileData: the step about to run, the steps of the current call
  resultsResp,                      \* getTexasFileData: the local `resultsResp`
  csvFile, envTestLimit,            \* processCSV: the rows of the input file, process.env.TEST_LIMIT (-1: not set)
  pcsResults,                       \* processCSV: the local `results`, the rows ingested
  cookieStore,                      \* lien script: the value of the name1 cookie in the global cookieStore
  lastEvent,                        \* lien script: what happened last, a request or a pause
  counties, ci, props, pi,          \* main: the county list, the listings of the county, and the two loop positions
  TEST_LIMIT,                       \* main: the local TEST_LIMIT
  totalAddressSourceCounts,         \* main: the four provenance totals
  sourced,                          \* main: the lengths of apiSourced, detailSourced, listSourced, approximated
  requests,                         \* main: the requests sent, in order
  exitCode,                         \* main: the exit code of the process (-1 while it runs)
  ePc, eIdx,                        \* texasfile_enrichment.js: the step about to run, the row being processed
  eLog,                             \* texasfile_enrichment.js: what getTexasFileData returned, per row
  eOut,                             \* texasfile_enrichment.js: processCSV's `results`
  responseCache                     \* texasfile_enrichment.js: the global responseCache

varsNorm == <<nPc, nRaw, nOnce, nTwice>>
varsGc == <<gcPc, gcResp, gcReq, gcF1, gcF2, gcSet, gcPage, gcResult>>
varsAddr == <<aPc, county, uidMap, p, details, chosenAddress, addressSource, results>>
varsVac == <<vPc, vLegal, vOther, vMatch, vIsVacant>>
varsLien == <<lPc, apiResponse, searchName, lienInfo>>
varsSort == <<sortPc, collected, written>>
varsPg == <<pgPc, pgOffset, pgAll, pgLog>>
varsTf == <<allowInsecure, client, rowIdx, enrichedResults, attempt, calls, waits,
            tfPc, tfLog, resultsResp, csvFile, envTestLimit, pcsResults, cookieStore,
            lastEvent>>
varsMain == <<counties, ci, props, pi, TEST_LIMIT, totalAddressSourceCounts, sourced,
              requests, exitCode>>
varsEnr == <<ePc, eIdx, eLog, eOut, responseCache>>
vars == <<nPc, nRaw, nOnce, nTwice,
          gcPc, gcResp, gcReq, gcF1, gcF2, gcSet, gcPage, gcResult,
          aPc, county, uidMap, p, details, chosenAddress, addressSource, results,
          vPc, vLegal, vOther, vMatch, vIsVacant,
          lPc, apiResponse, searchName, lienInfo,
          sortPc, collected, written,
          pgPc, pgOffset, pgAll, pgLog,
          allowInsecure, client, rowIdx, enrichedResults, attempt, calls, waits,
          tfPc, tfLog, resultsResp, csvFile, envTestLimit, pcsResults, cookieStore,
          lastEvent,
          counties, ci, props, pi, TEST_LIMIT, totalAddressSourceCounts, sourced,
          requests, exitCode,
          ePc, eIdx, eLog, eOut, responseCache>>

\* what each specification leaves alone, and the values it leaves there
outsideNorm == <<varsGc, varsAddr, varsVac, varsLien, varsSort, varsPg, varsTf, varsMain, varsEnr>>
outsideGc == <<varsNorm, varsAddr, varsVac, varsLien, varsSort, varsPg, varsTf, varsMain, varsEnr>>
outsideAddr == <<varsNorm, varsGc, varsVac, varsLien, varsSort, varsPg, varsTf, varsMain, varsEnr>>
outsideVac == <<varsNorm, varsGc, varsAddr, varsLien, varsSort, varsPg, varsTf, varsMain, varsEnr>>
outsideTf == <<varsNorm, varsGc, varsAddr, varsVac, varsLien, varsSort, varsPg, varsMain,
               varsEnr>>

IdleNorm == nPc = "idle" /\ nRaw = <<>> /\ nOnce = <<>> /\ nTwice = <<>>

IdleGc ==
  /\ gcPc = "idle"
  /\ gcResp = <<>>
  /\ gcReq = <<>>
  /\ gcF1 = <<>>
  /\ gcF2 = <<>>
  /\ gcSet = <<>>
  /\ gcPage = 0
  /\ gcResult = <<>>

IdleAddr ==
  /\ aPc = "idle"
  /\ county = <<>>
  /\ uidMap = <<>>
  /\ p = <<>>
  /\ details = <<>>
  /\ chosenAddress = <<>>
  /\ addressSource = ""
  /\ results = <<>>

IdleVac ==
  /\ vPc = "idle"
  /\ vLegal = <<>>
  /\ vOther = <<>>
  /\ vMatch = <<>>
  /\ vIsVacant = FALSE

\* the lien scripts, the final sort, the page walk and the whole run of main
\* are idle, but for the one that is named
IdleBut(running) ==
  /\ running = "lien" \/ (lPc = "idle" /\ apiResponse = <<>> /\ searchName = <<>> /\ lienInfo = <<>>)
  /\ running = "sort" \/ (sortPc = "idle" /\ collected = <<>> /\ written = <<>>)
  /\ running = "pg" \/ (pgPc = "idle" /\ pgOffset = 0 /\ pgAll = <<>> /\ pgLog = <<>>)
  /\ running = "tf" \/ ( /\ allowInsecure = FALSE /\ client = "idle"
                         /\ rowIdx = 0 /\ enrichedResults = <<>>
                         /\ attempt = 0 /\ calls = 0 /\ waits = <<>>
                         /\ tfPc = "idle" /\ tfLog = <<>> /\ resultsResp = <<>>
                         /\ csvFile = <<>> /\ envTestLimit = -1 /\ pcsResults = <<>>
                         /\ cookieStore = <<>> /\ lastEvent = "none" )
  /\ running = "main" \/ ( /\ counties = <<>> /\ ci = 0 /\ props = <<>> /\ pi = 0
                           /\ TEST_LIMIT = 0 /\ totalAddressSourceCounts = <<>>
                           /\ sourced = <<>> /\ requests = <<>> /\ exitCode = -1 )
  /\ running = "enr" \/ ( /\ ePc = "idle" /\ eIdx = 0 /\ eLog = <<>> /\ eOut = <<>>
                          /\ responseCache = <<>> )

IdleOld == IdleNorm /\ IdleGc /\ IdleAddr /\ IdleVac

(***************************************************************************)
(* Bounds of the model.                                                    *)
(***************************************************************************)
\* longest run of whitespace put before, inside and after a raw county name
MaxPad == 1
\* most rows in one server response (a county list, or one page of listings)
MaxRows == 2
\* most pages of property_sales the server serves before it stops sending `next`
MaxPages == 2
\* largest listing uid (0 stands for a listing without uid)
MaxUid == 2

(***************************************************************************)
(* Characters and JavaScript string primitives.                            *)
(***************************************************************************)
LowerLetters == <<"a","b","c","d","e","f","g","h","i","j","k","l","m",
                  "n","o","p","q","r","s","t","u","v","w","x","y","z">>
UpperLetters == <<"A","B","C","D","E","F","G","H","I","J","K","L","M",
                  "N","O","P","Q","R","S","T","U","V","W","X","Y","Z">>

\* the characters matched by \s and removed by trim()
IsWs(c) == c \in {" ", "\t"}

\* String.prototype.toUpperCase, one character
UpperChar(c) ==
  IF \E i \in 1..26 : LowerLetters[i] = c
  THEN UpperLetters[CHOOSE i \in 1..26 : LowerLetters[i] = c]
  ELSE c

toUpperCase(s) == [i \in 1..Len(s) |-> UpperChar(s[i])]

\* String.prototype.trim
trim(s) ==
  LET solid == {i \in 1..Len(s) : ~IsWs(s[i])}
  IN  IF solid = {} THEN <<>>
      ELSE LET first == CHOOSE i \in solid : \A j \in solid : i <= j
               last  == CHOOSE i \in solid : \A j \in solid : j <= i
           IN  SubSeq(s, first, last)

\* s.replace(/\s+/g, ' '): every maximal run of whitespace becomes one space
RECURSIVE CollapseWs(_)
CollapseWs(s) ==
  IF s = <<>> THEN <<>>
  ELSE IF IsWs(Head(s))
       THEN IF Len(s) > 1 /\ IsWs(s[2])
            THEN CollapseWs(Tail(s))
            ELSE <<" ">> \o CollapseWs(Tail(s))
       ELSE <<Head(s)>> \o CollapseWs(Tail(s))

\* t matches ^\s*,\s*TX$ as a whole
MatchesStateSuffix(t) ==
  /\ Len(t) >= 3
  /\ t[Len(t) - 1] = "T"
  /\ t[Len(t)] = "X"
  /\ \E k \in 1..(Len(t) - 2) :
       /\ t[k] = ","
       /\ \A j \in 1..(k - 1) : IsWs(t[j])
       /\ \A j \in (k + 1)..(Len(t) - 2) : IsWs(t[j])

\* s.replace(/\s*,\s*TX$/, ''): the leftmost match is removed
StripStateSuffix(s) ==
  LET starts == {i \in 1..Len(s) : MatchesStateSuffix(SubSeq(s, i, Len(s)))}
  IN  IF starts = {} THEN s
      ELSE SubSeq(s, 1, (CHOOSE i \in starts : \A j \in starts : i <= j) - 1)

\* String.prototype.endsWith
endsWith(s, suf) ==
  /\ Len(s) >= Len(suf)
  /\ SubSeq(s, Len(s) - Len(suf) + 1, Len(s)) = suf

\* String.prototype.includes
includes(s, sub) ==
  \E i \in 0..(Len(s) - Len(sub)) : SubSeq(s, i + 1, i + Len(sub)) = sub

\* the literal ' COUNTY'
CountySuffix == <<" ","C","O","U","N","T","Y">>

(***************************************************************************)
(* normalizeCountyName                                                     *)
(***************************************************************************)
\* faulty variant: whitespace runs are not collapsed
normalizeCountyName_NoCollapse(raw) ==
  IF raw = <<>> THEN <<>>
  ELSE LET upper == toUpperCase(trim(raw))
           withoutState == StripStateSuffix(upper)
       IN  IF endsWith(withoutState, CountySuffix)
           THEN withoutState
           ELSE withoutState \o CountySuffix

normalizeCountyName(raw) ==
  IF raw = <<>> THEN <<>>
  ELSE LET upper == CollapseWs(toUpperCase(trim(raw)))
           withoutState == StripStateSuffix(upper)
       IN  IF endsWith(withoutState, CountySuffix)
           THEN withoutState
           ELSE withoutState \o CountySuffix

(***************************************************************************)
(* getAllCounties                                                          *)
(***************************************************************************)
METRO_COUNTIES ==
  { <<"T","R","A","V","I","S"," ","C","O","U","N","T","Y">>,
    <<"D","A","L","L","A","S"," ","C","O","U","N","T","Y">>,
    <<"H","A","R","R","I","S"," ","C","O","U","N","T","Y">>,
    <<"B","E","X","A","R"," ","C","O","U","N","T","Y">> }

\* UTF-16 code-unit order of the characters the model uses
CodeOrder == <<"\t"," ","#","$","(",")",",",".",
               "0","1","2","3","4","5","6","7","8","9">>
             \o UpperLetters \o LowerLetters

CharCode(c) == CHOOSE i \in 1..Len(CodeOrder) : CodeOrder[i] = c

\* a < b in the order Array.prototype.sort() uses without a comparator
RECURSIVE LexLess(_, _)
LexLess(a, b) ==
  IF b = <<>> THEN FALSE
  ELSE IF a = <<>> THEN TRUE
  ELSE IF Head(a) = Head(b) THEN LexLess(Tail(a), Tail(b))
  ELSE CharCode(Head(a)) < CharCode(Head(b))

\* Array.prototype.sort() on an array of strings
RECURSIVE SortStrings(_)
SortStrings(list) ==
  IF list = <<>> THEN <<>>
  ELSE LET i == CHOOSE k \in 1..Len(list) :
                  \A j \in 1..Len(list) : ~LexLess(list[j], list[k])
           rest == [j \in 1..(Len(list) - 1) |-> IF j < i THEN list[j] ELSE list[j + 1]]
       IN  <<list[i]>> \o SortStrings(rest)

\* [...new Set(list)]: first occurrences, in insertion order
RECURSIVE Dedupe(_)
Dedupe(list) ==
  IF list = <<>> THEN <<>>
  ELSE LET front == Dedupe(SubSeq(list, 1, Len(list) - 1))
           last == list[Len(list)]
       IN  IF \E i \in 1..Len(front) : front[i] = last THEN front ELSE Append(front, last)

NotMetro(n) == n \notin METRO_COUNTIES
Truthy(n) == n # <<>>

\* a truthy value that is no string (a number): calling .trim() on it throws
NonString == <<"#5">>

\* One element of a response array.  t = "null": null;  t = "str": the string s;
\* t = "obj": an object whose four name keys hold county, county_name, name,
\* sale_county (the empty sequence for a key that is absent or empty).
NullRow == [t |-> "null", s |-> <<>>, county |-> <<>>, county_name |-> <<>>,
            name |-> <<>>, sale_county |-> <<>>]
StrRow(v) == [NullRow EXCEPT !.t = "str", !.s = v]
ObjRow(c, cn, n, sc) ==
  [NullRow EXCEPT !.t = "obj", !.county = c, !.county_name = cn, !.name = n,
                  !.sale_county = sc]

\* the outcome of the body of a try block
Return(list, f) == [kind |-> "return", value |-> list, filtered |-> f]
FallThrough(f) == [kind |-> "next", value |-> <<>>, filtered |-> f]
Throw == [kind |-> "throw", value |-> <<>>, filtered |-> <<>>]

\* faulty variant: the error is rethrown instead of logged
Catch_Rethrow(outcome) == outcome

\* catch (err) { console.warn(...) }: the error is logged and execution goes on
Catch(outcome) == IF outcome.kind = "throw" THEN FallThrough(<<>>) ELSE outcome

\* row => ... of stage 1 (the value null stands for the dropped rows)
Stage1Candidate(row) ==
  IF row.t = "null" THEN <<>>
  ELSE IF row.t = "str" THEN row.s
  ELSE IF Truthy(row.county) THEN row.county
  ELSE IF Truthy(row.county_name) THEN row.county_name
  ELSE IF Truthy(row.name) THEN row.name
  ELSE row.sale_county

\* faulty variant: the metro filter is applied to the raw names
FilterCounties_Raw(raws) ==
  LET kept == SelectSeq(SelectSeq(raws, Truthy), NotMetro)
  IN  SelectSeq(Dedupe([i \in 1..Len(kept) |-> normalizeCountyName(kept[i])]), Truthy)

\* names.filter(Boolean), [...new Set(names)].filter(n => !METRO_COUNTIES.has(n))
FilterCounties(raws) ==
  LET names == SelectSeq([i \in 1..Len(raws) |-> normalizeCountyName(raws[i])], Truthy)
  IN  SelectSeq(Dedupe(names), NotMetro)

\* faulty variant: the non-empty list is computed but not returned
ReturnIfAny_Never(filtered) == FallThrough(filtered)

\* if (filtered.length) return filtered.sort();
ReturnIfAny(filtered) ==
  IF filtered # <<>> THEN Return(SortStrings(filtered), filtered) ELSE FallThrough(filtered)

\* the try block of stage 1, given the response to GET sale_counties
Stage1Body(resp) ==
  IF resp.kind \in {"error", "badrows"} THEN Throw
  ELSE LET rows == IF resp.kind = "rows" THEN resp.rows ELSE <<>>   \* any of the three shapes
           raws == [i \in 1..Len(rows) |-> Stage1Candidate(rows[i])]
       IN  IF \E i \in 1..Len(raws) : raws[i] = NonString THEN Throw
           ELSE ReturnIfAny(FilterCounties(raws))

\* the try block of stage 2, given the response to GET counties
Stage2Body(resp) ==
  IF resp.kind \in {"error", "badrows"} THEN Throw
  ELSE LET rows == IF resp.kind = "rows" /\ resp.shape = "results" THEN resp.rows ELSE <<>>
       IN  IF \E i \in 1..Len(rows) : rows[i].t = "null" \/ rows[i].name = NonString
           THEN Throw
           ELSE ReturnIfAny(FilterCounties([i \in 1..Len(rows) |->
                                              IF rows[i].t = "obj" THEN rows[i].name
                                              ELSE <<>>]))

(***************************************************************************)
(* Raw county names a server can send: a base name in some letter case,    *)
(* optionally followed by "County" and by ", TX", with whitespace runs     *)
(* before, between and after the parts.                                    *)
(***************************************************************************)
Pads == {[i \in 1..n |-> c] : n \in 0..MaxPad, c \in {" ", "\t"}}
Gaps == Pads \ {<<>>}

BaseNames ==
  { <<>>,
    <<"T","R","A","V","I","S">>,
    <<"t","r","a","v","i","s">>,
    <<"B","e","x","a","r">>,
    <<"B","e","l","l">>,
    <<"S","a","n"," "," ","S","a","b","a">> }

CountyParts ==
  {<<>>} \cup {g \o w : g \in Gaps,
                        w \in {<<"C","o","u","n","t","y">>, <<"C","O","U","N","T","Y">>}}

StateParts ==
  {<<>>} \cup {a \o <<",">> \o b \o w : a \in Pads, b \in Pads,
                                        w \in {<<"T","X">>, <<"t","x">>}}

RawNames ==
  {lead \o base \o cty \o st \o trail :
     lead \in Pads, base \in BaseNames, cty \in CountyParts,
     st \in StateParts, trail \in Pads}

\* data.results.forEach(p => { ... set.add(name) }) of stage 3
RECURSIVE Stage3Add(_, _)
Stage3Add(set, rows) ==
  IF rows = <<>> THEN set
  ELSE LET name == normalizeCountyName(IF Head(rows).t = "obj" THEN Head(rows).county ELSE <<>>)
           grown == IF NotMetro(name) /\ ~(\E i \in 1..Len(set) : set[i] = name)
                    THEN Append(set, name) ELSE set
       IN  Stage3Add(grown, Tail(rows))

\* const arr = [...set].sort(); if (arr.length) return arr;
Stage3Finish(set) ==
  IF set # <<>> THEN Return(SortStrings(set), set) ELSE FallThrough(set)

\* one turn of the while loop of stage 3, given the response to GET property_sales;
\* kind "loop" means the loop goes on to the next page
Stage3Body(set, resp) ==
  IF resp.kind = "error" THEN Throw
  ELSE IF ~(resp.kind = "rows" /\ resp.shape = "results" /\ resp.rows # <<>>)
       THEN Stage3Finish(set)
  ELSE IF \E i \in 1..Len(resp.rows) :
            resp.rows[i].t = "null" \/ resp.rows[i].county = NonString
       THEN Throw
  ELSE LET grown == Stage3Add(set, resp.rows)
       IN  IF ~resp.next THEN Stage3Finish(grown)
           ELSE [kind |-> "loop", value |-> <<>>, filtered |-> grown]

(***************************************************************************)
(* Server responses to the county requests.                                *)
(***************************************************************************)
GcNames ==
  { <<>>,
    <<"t","r","a","v","i","s">>,
    <<" ","T","R","A","V","I","S","\t","C","o","u","n","t","y"," ",",","t","x">>,
    <<"B","e","x","a","r"," ","C","o","u","n","t","y">>,
    <<"H","a","r","r","i","s"," ",","," ","T","X"," ">>,
    <<"H","a","y","s">>,
    <<"B","e","l","l">>,
    <<"b","e","l","l"," "," ","c","o","u","n","t","y",","," ","T","X">> }

\* rows of the sale_counties response: strings, and objects naming the county
\* under one key or another
Stage1Rows ==
  {NullRow, ObjRow(<<>>, <<>>, <<>>, <<>>), ObjRow(NonString, <<>>, <<>>, <<>>)}
  \cup {StrRow(n) : n \in GcNames}
  \cup {ObjRow(<<"B","e","x","a","r">>, <<>>, <<>>, <<>>),
        ObjRow(<<>>, <<"B","e","l","l",",","T","X">>, <<>>, <<>>),
        ObjRow(<<>>, <<>>, <<"t","r","a","v","i","s">>, <<>>),
        ObjRow(<<>>, <<>>, <<>>, <<"H","a","y","s">>),
        ObjRow(<<>>, <<"H","a","y","s">>, <<"B","e","l","l">>, <<>>)}

\* rows of the counties response: objects with a name, and rows without one
Stage2Rows ==
  {NullRow, StrRow(<<"B","e","l","l">>), ObjRow(<<"B","e","l","l">>, <<>>, <<>>, <<>>)}
  \cup {ObjRow(<<>>, <<>>, n, <<>>) : n \in GcNames \cup {NonString}}

\* rows of a property_sales page: listings with a county, and rows without one
Stage3Rows ==
  {NullRow} \cup {ObjRow(n, <<>>, <<>>, <<>>) : n \in GcNames \cup {NonString}}

RowLists(rows) == UNION {[1..n -> rows] : n \in 0..MaxRows}

\* kind "error": the request fails;  "other": a payload without the expected keys;
\* "badrows": the expected key holds a non-array object;  "rows": an array, found
\* under data.results, as data itself, or under data.sale_counties
ErrorResp == [kind |-> "error", shape |-> "none", rows |-> <<>>, next |-> FALSE]
OtherResp == [kind |-> "other", shape |-> "none", rows |-> <<>>, next |-> FALSE]
BadRowsResp == [kind |-> "badrows", shape |-> "results", rows |-> <<>>, next |-> FALSE]

Stage1Responses ==
  {ErrorResp, OtherResp, BadRowsResp}
  \cup {[kind |-> "rows", shape |-> sh, rows |-> r, next |-> FALSE] :
          sh \in {"results", "array", "sale_counties"}, r \in RowLists(Stage1Rows)}

Stage2Responses ==
  {ErrorResp, OtherResp, BadRowsResp}
  \cup {[kind |-> "rows", shape |-> sh, rows |-> r, next |-> FALSE] :
          sh \in {"results", "array"}, r \in RowLists(Stage2Rows)}

\* the server sends `next` only while it has more pages
PageResponses(more) ==
  {ErrorResp, OtherResp, BadRowsResp}
  \cup {[kind |-> "rows", shape |-> "results", rows |-> r, next |-> nx] :
          r \in RowLists(Stage3Rows), nx \in (IF more THEN BOOLEAN ELSE {FALSE})}

(***************************************************************************)
(* SpecCounties: one call of getAllCounties, one action per request.       *)
(***************************************************************************)
InitCounties ==
  /\ gcPc = "stage1"
  /\ gcResp = <<>>
  /\ gcReq = [sale_counties |-> 0, counties |-> 0, property_sales |-> 0]
  /\ gcF1 = <<>>
  /\ gcF2 = <<>>
  /\ gcSet = <<>>
  /\ gcPage = 0
  /\ gcResult = <<>>
  /\ IdleNorm /\ IdleAddr /\ IdleVac /\ IdleBut("none")

\* lines 36-58: GET sale_counties and the first try block
GcStage1 ==
  /\ gcPc = "stage1"
  /\ \E resp \in Stage1Responses :
       LET o == Catch(Stage1Body(resp))
       IN  /\ gcResp' = IF o.kind = "return" THEN resp ELSE <<>>
           /\ gcReq' = [gcReq EXCEPT !.sale_counties = @ + 1]
           /\ gcF1' = o.filtered
           /\ gcPc' = IF o.kind = "return" THEN "done"
                      ELSE IF o.kind = "throw" THEN "threw" ELSE "stage2"
           /\ gcResult' = o.value
  /\ UNCHANGED <<gcF2, gcSet, gcPage>>
  /\ UNCHANGED outsideGc

\* lines 61-70: GET counties and the second try block
GcStage2 ==
  /\ gcPc = "stage2"
  /\ \E resp \in Stage2Responses :
       LET o == Catch(Stage2Body(resp))
       IN  /\ gcResp' = IF o.kind = "return" THEN resp ELSE <<>>
           /\ gcReq' = [gcReq EXCEPT !.counties = @ + 1]
           /\ gcF2' = o.filtered
           /\ gcPc' = IF o.kind = "return" THEN "done"
                      ELSE IF o.kind = "throw" THEN "threw" ELSE "stage3"
           /\ gcResult' = o.value
  /\ UNCHANGED <<gcF1, gcSet, gcPage>>
  /\ UNCHANGED outsideGc

\* lines 73-98: one GET property_sales of the scan; when the loop ends, the rest
\* of the function up to its return
GcStage3Page ==
  /\ gcPc = "stage3"
  /\ \E resp \in PageResponses(gcPage + 1 < MaxPages) :
       LET o == Catch(Stage3Body(gcSet, resp))
       IN  /\ gcResp' = IF o.kind = "return" THEN resp ELSE <<>>
           /\ gcReq' = [gcReq EXCEPT !.property_sales = @ + 1]
           /\ gcPage' = gcPage + 1
           /\ gcSet' = o.filtered
           /\ gcPc' = IF o.kind = "loop" THEN "stage3"
                      ELSE IF o.kind = "throw" THEN "threw" ELSE "done"
           /\ gcResult' = o.value
  /\ UNCHANGED <<gcF1, gcF2>>
  /\ UNCHANGED outsideGc

NextCounties == GcStage1 \/ GcStage2 \/ GcStage3Page

SpecCounties == InitCounties /\ [][NextCounties]_vars

(***************************************************************************)
(* The loop body of main: address precedence, vacancy test, record.        *)
(***************************************************************************)
Digits == <<"0","1","2","3","4","5","6","7","8","9">>

\* Number.prototype.toString for a non-negative integer
RECURSIVE NumToString(_)
NumToString(n) ==
  IF n < 10 THEN <<Digits[n + 1]>>
  ELSE NumToString(n \div 10) \o <<Digits[(n % 10) + 1]>>

\* (p.uid || '').toString(), and item.uid.toString() for a truthy uid
UidStr(uid) == IF uid = 0 THEN <<>> ELSE NumToString(uid)

\* parts.join(', ')
RECURSIVE JoinComma(_)
JoinComma(parts) ==
  IF parts = <<>> THEN <<>>
  ELSE IF Len(parts) = 1 THEN parts[1]
  ELSE parts[1] \o <<",", " ">> \o JoinComma(Tail(parts))

\* [o.prop_address_one, o.prop_city, o.prop_state, o.prop_zipcode].filter(Boolean).join(', ')
FullAddress(o) ==
  JoinComma(SelectSeq(<<o.prop_address_one, o.prop_city, o.prop_state, o.prop_zipcode>>,
                      Truthy))

\* `${county} (address missing)`
AddressMissing(c) ==
  c \o <<" ","(","a","d","d","r","e","s","s"," ","m","i","s","s","i","n","g",")">>

\* faulty variant: the detail address is preferred to the bulk-map address
ResolveAddress_DetailFirst(map, row, det, c) ==
  LET uidStr == UidStr(row.uid)
  IN  IF Truthy(det.prop_address_one) \/ Truthy(det.prop_city) \/ Truthy(det.prop_zipcode)
      THEN [address |-> FullAddress(det), source |-> "detail"]
      ELSE IF uidStr \in DOMAIN map /\ Truthy(map[uidStr])
      THEN [address |-> map[uidStr], source |-> "api_list"]
      ELSE IF Truthy(row.prop_address_one)
      THEN [address |-> FullAddress(row), source |-> "listing"]
      ELSE [address |-> AddressMissing(c), source |-> "approximated"]

\* lines 255-269: uidMap -> details -> listing -> fallback
ResolveAddress(map, row, det, c) ==
  LET uidStr == UidStr(row.uid)
  IN  IF uidStr \in DOMAIN map /\ Truthy(map[uidStr])
      THEN [address |-> map[uidStr], source |-> "api_list"]
      ELSE IF Truthy(det.prop_address_one) \/ Truthy(det.prop_city) \/ Truthy(det.prop_zipcode)
      THEN [address |-> FullAddress(det), source |-> "detail"]
      ELSE IF Truthy(row.prop_address_one)
      THEN [address |-> FullAddress(row), source |-> "listing"]
      ELSE [address |-> AddressMissing(c), source |-> "approximated"]

vacancyKeywords ==
  << <<"V","A","C","A","N","T">>,
     <<"L","O","T">>,
     <<"L","O","T","S">>,
     <<"A","C","R","E">>,
     <<"A","C","R","E","S">>,
     <<"L","A","N","D">>,
     <<"L","A","N","D","S">>,
     <<"T","R","A","C","T">>,
     <<"T","R","A","C","T","S">>,
     <<"P","A","R","C","E","L">>,
     <<"P","A","R","C","E","L","S">>,
     <<"U","N","D","E","V","E","L","O","P","E","D">>,
     <<"U","N","I","M","P","R","O","V","E","D">>,
     <<"R","U","R","A","L">> >>

\* detectVacancy's `return null`
NoMatch == [match |-> <<>>, source |-> ""]

\* for (const term of vacancyKeywords) { ... } from the k-th keyword on
RECURSIVE DetectFrom(_, _, _)
DetectFrom(k, upperLegal, upperNotes) ==
  IF k > Len(vacancyKeywords) THEN NoMatch
  ELSE IF includes(upperLegal, vacancyKeywords[k])
       THEN [match |-> vacancyKeywords[k], source |-> "legalDesc"]
  ELSE IF includes(upperNotes, vacancyKeywords[k])
       THEN [match |-> vacancyKeywords[k], source |-> "saleNotes"]
  ELSE DetectFrom(k + 1, upperLegal, upperNotes)

\* faulty variant: the texts are searched as they are, not upper-cased
detectVacancy_CaseSensitive(legalDesc, saleNotes) == DetectFrom(1, legalDesc, saleNotes)

\* detectVacancy of main
detectVacancy(legalDesc, saleNotes) ==
  DetectFrom(1, toUpperCase(legalDesc), toUpperCase(saleNotes))

\* isVacantLot(legal_description, address)
isVacantLot(legal_description, address) ==
  LET text == toUpperCase(legal_description \o <<" ">> \o address)
  IN  \E k \in 1..Len(vacancyKeywords) : includes(text, vacancyKeywords[k])

\* the record pushed to results (the fields the address and vacancy logic fill)
OutputRecord(row, c, det, addr, match) ==
  [uid |-> row.uid,
   county |-> c,
   address |-> addr.address,
   address_source |-> addr.source,
   legal_description |-> det.legal_description,
   sale_notes |-> row.sale_notes,
   vacant_keyword |-> match.match,
   vacant_source |-> match.source]

(***************************************************************************)
(* Inputs of the loop body.                                                *)
(***************************************************************************)
Counties == {<<"B","E","L","L"," ","C","O","U","N","T","Y">>,
             <<"H","A","Y","S"," ","C","O","U","N","T","Y">>}

BulkAddresses == {<<>>, <<"9"," ","O","A","K",","," ","T","X">>}

\* the maps fetchUidAddressMapForCounty can build: keys are the strings of truthy uids
UidMaps == UNION {[keys -> BulkAddresses] : keys \in SUBSET {UidStr(u) : u \in 1..MaxUid}}

AddressFields ==
  [prop_address_one : {<<>>, <<"5"," ","E","L","M">>},
   prop_city : {<<>>, <<"W","A","C","O">>},
   prop_state : {<<>>, <<"T","X">>},
   prop_zipcode : {<<>>, <<"7","6","7","0","1">>}]

Listings ==
  {[uid |-> u, prop_address_one |-> a.prop_address_one, prop_city |-> a.prop_city,
    prop_state |-> a.prop_state, prop_zipcode |-> a.prop_zipcode, sale_notes |-> <<>>] :
     u \in 0..MaxUid, a \in AddressFields}

\* what getPropertyDetails returns; every field empty stands for {} as well
DetailRecords ==
  {[prop_address_one |-> a.prop_address_one, prop_city |-> a.prop_city,
    prop_state |-> a.prop_state, prop_zipcode |-> a.prop_zipcode,
    legal_description |-> l] :
     a \in AddressFields, l \in {<<>>, <<"L","o","t"," ","5">>}}

VacancyTexts ==
  { <<>>,
    <<"v","a","c","a","n","t"," ","l","o","t">>,
    <<"V","A","C","A","N","T"," ","L","O","T"," ","5">>,
    <<"L","o","t","s"," ","3">>,
    <<"2"," ","a","c","r","e","s">>,
    <<"i","s","l","a","n","d">>,
    <<"T","r","a","c","t"," ","A">>,
    <<"b","r","i","c","k"," ","h","o","u","s","e">>,
    <<"R","u","r","a","l">>,
    <<"p","a","r","c","e","l","s">>,
    <<"u","n","i","m","p","r","o","v","e","d">>,
    <<"l","o">>,
    <<"t"," ","5">> }

(***************************************************************************)
(* SpecAddr: one turn of the listing loop of main, for a listing that      *)
(* passed the status and price checks.                                     *)
(***************************************************************************)
InitAddr ==
  /\ aPc = "fetch"
  /\ county \in Counties
  /\ uidMap \in UidMaps
  /\ p \in Listings
  /\ details = <<>>
  /\ chosenAddress = <<>>
  /\ addressSource = ""
  /\ results = <<>>
  /\ IdleNorm /\ IdleGc /\ IdleVac /\ IdleBut("none")

\* lines 251-313: the detail request returns, then the address precedence, the
\* vacancy test and the push (or the skip of a listing that is not vacant)
ProcessListing ==
  /\ aPc = "fetch"
  /\ \E det \in DetailRecords :
       LET addr == ResolveAddress(uidMap, p, det, county)
           vacancyMatch == detectVacancy(det.legal_description, p.sale_notes)
       IN  /\ details' = det
           /\ chosenAddress' = addr.address
           /\ addressSource' = addr.source
           /\ results' = IF vacancyMatch = NoMatch THEN results
                         ELSE Append(results, OutputRecord(p, county, det, addr, vacancyMatch))
  /\ aPc' = "end"
  /\ UNCHANGED <<county, uidMap, p>>
  /\ UNCHANGED outsideAddr

NextAddr == ProcessListing

SpecAddr == InitAddr /\ [][NextAddr]_vars

(***************************************************************************)
(* SpecVacancy: detectVacancy and isVacantLot as pure functions.           *)
(***************************************************************************)
InitVacancy ==
  /\ vPc = "in"
  /\ vLegal \in VacancyTexts
  /\ vOther \in VacancyTexts
  /\ vMatch = <<>>
  /\ vIsVacant = FALSE
  /\ IdleNorm /\ IdleGc /\ IdleAddr /\ IdleBut("none")

\* detectVacancy(legalDesc, saleNotes)
VacDetect ==
  /\ vPc = "in"
  /\ vMatch' = detectVacancy(vLegal, vOther)
  /\ vPc' = "detected"
  /\ UNCHANGED <<vLegal, vOther, vIsVacant>>
  /\ UNCHANGED outsideVac

\* isVacantLot(legal_description, address)
VacIsVacantLot ==
  /\ vPc = "in"
  /\ vIsVacant' = isVacantLot(vLegal, vOther)
  /\ vPc' = "tested"
  /\ UNCHANGED <<vLegal, vOther, vMatch>>
  /\ UNCHANGED outsideVac

NextVacancy == VacDetect \/ VacIsVacantLot

SpecVacancy == InitVacancy /\ [][NextVacancy]_vars

(***************************************************************************)
(* SpecNorm: normalizeCountyName as a pure function, applied to a raw      *)
(* name and then to its own output.                                        *)
(***************************************************************************)
InitNorm ==
  /\ nPc = "in"
  /\ nRaw \in RawNames
  /\ nOnce = <<>>
  /\ nTwice = <<>>
  /\ IdleGc /\ IdleAddr /\ IdleVac /\ IdleBut("none")

NormApply ==
  /\ nPc = "in"
  /\ nOnce' = normalizeCountyName(nRaw)
  /\ nPc' = "once"
  /\ UNCHANGED <<nRaw, nTwice>>
  /\ UNCHANGED outsideNorm

NormReapply ==
  /\ nPc = "once"
  /\ nTwice' = normalizeCountyName(nOnce)
  /\ nPc' = "twice"
  /\ UNCHANGED <<nRaw, nOnce>>
  /\ UNCHANGED outsideNorm

NextNorm == NormApply \/ NormReapply

SpecNorm == InitNorm /\ [][NextNorm]_vars

(***************************************************************************)
(* Properties of the address precedence.                                   *)
(***************************************************************************)
\* the bulk map holds a non-empty address under the listing's uid string
InBulkMap == UidStr(p.uid) \in DOMAIN uidMap /\ uidMap[UidStr(p.uid)] # <<>>

\* an address line, a city or a zip code is there
HasAddress(o) == o.prop_address_one # <<>> \/ o.prop_city # <<>> \/ o.prop_zipcode # <<>>

\* C1: a listing whose uid string is a key of the bulk map with a non-empty value
\* gets that value as its address, tagged api_list, whatever the detail record
\* and the listing row hold.
C1_BulkMapWins ==
  (aPc = "end" /\ InBulkMap) =>
     (chosenAddress = uidMap[UidStr(p.uid)] /\ addressSource = "api_list")

\* the bulk address was chosen although the detail record and the listing row
\* both carry an address of their own
C1_Witness ==
  /\ aPc = "end"
  /\ InBulkMap
  /\ addressSource = "api_list"
  /\ details.prop_address_one # <<>>
  /\ p.prop_address_one # <<>>
  /\ chosenAddress # FullAddress(details)
  /\ Len(results) = 1

\* C2: every record pushed carries one address_source out of api_list, detail,
\* listing, approximated; it is approximated exactly when the address is the
\* synthetic "{county} (address missing)", and then no fetched address was there.
C2_SourceTagInvariant ==
  \A i \in 1..Len(results) :
    /\ results[i].address_source \in {"api_list", "detail", "listing", "approximated"}
    /\ results[i].address_source = "approximated"
         <=> results[i].address = AddressMissing(results[i].county)
    /\ results[i].address_source = "approximated"
         => ~(InBulkMap \/ HasAddress(details) \/ HasAddress(p))

\* C3: without a bulk-map address and without detail address fields, a listing
\* row with an address line, a city or a zip code gets its comma-joined address,
\* tagged listing; approximated is chosen only when the row has none of them.
C3_ListingRank ==
  (/\ aPc = "end"
   /\ ~InBulkMap
   /\ ~HasAddress(details)
   /\ details.prop_state = <<>>) =>
     /\ HasAddress(p) => (addressSource = "listing" /\ chosenAddress = FullAddress(p))
     /\ addressSource = "approximated" => ~HasAddress(p)

(***************************************************************************)
(* Properties of the vacancy tests.                                        *)
(***************************************************************************)
\* kw occurs in text when letter case is ignored
Occurs(kw, text) ==
  \E off \in 0..(Len(text) - Len(kw)) :
    \A j \in 1..Len(kw) : UpperChar(text[off + j]) = kw[j]

Hits == {k \in 1..Len(vacancyKeywords) :
           Occurs(vacancyKeywords[k], vLegal) \/ Occurs(vacancyKeywords[k], vOther)}

FirstHit == CHOOSE k \in Hits : \A j \in Hits : k <= j

\* C10: the text pair is vacant exactly when some keyword occurs in one of the
\* texts, letter case ignored; detectVacancy reports the first keyword of the list
\* that occurs in either text, from the legal description when it occurs there,
\* else from the sale notes; 'VACANT LOT' reports VACANT.
C10_VacancyClassification ==
  /\ vPc = "detected" =>
       IF Hits = {} THEN vMatch = NoMatch
       ELSE /\ vMatch.match = vacancyKeywords[FirstHit]
            /\ vMatch.source = IF Occurs(vacancyKeywords[FirstHit], vLegal)
                               THEN "legalDesc" ELSE "saleNotes"
  /\ (vPc = "detected" /\ Occurs(<<"V","A","C","A","N","T"," ","L","O","T">>, vLegal)) =>
       vMatch.match = <<"V","A","C","A","N","T">>
  /\ vPc = "tested" => (vIsVacant <=> Hits # {})

\* a lower-case 'vacant lot' in the sale notes, nothing in the legal description
C10_Witness ==
  /\ vPc = "detected"
  /\ vLegal = <<"b","r","i","c","k"," ","h","o","u","s","e">>
  /\ vOther = <<"v","a","c","a","n","t"," ","l","o","t">>
  /\ vMatch = [match |-> <<"V","A","C","A","N","T">>, source |-> "saleNotes"]

(***************************************************************************)
(* Properties of getAllCounties.                                           *)
(***************************************************************************)
IsLetter(c) == \E k \in 1..26 : UpperLetters[k] = c \/ LowerLetters[k] = c

\* the letters of s, upper-cased: what a name says whatever its spacing and case
LettersOf(s) == toUpperCase(SelectSeq(s, IsLetter))

DenotesMetro(e) == \E m \in METRO_COUNTIES : LettersOf(e) = LettersOf(m)

\* C4: once stage 1 has produced a non-empty filtered list, no request goes to
\* the counties endpoint nor to the property_sales scan; once stage 2 has produced
\* one, no request goes to the property_sales scan.
C4_LaterStagesNeverInvoked ==
  /\ gcF1 # <<>> => (gcReq.counties = 0 /\ gcReq.property_sales = 0)
  /\ gcF2 # <<>> => gcReq.property_sales = 0

C4_Witness ==
  /\ gcPc = "done"
  /\ gcF1 # <<>>
  /\ gcResult = SortStrings(gcF1)
  /\ gcReq = [sale_counties |-> 1, counties |-> 0, property_sales |-> 0]

\* C5: no element of the returned list names a county of the excluded metro set,
\* whichever stage produced the list and however the server spelled the name.
C5_MetroExcluded ==
  gcPc = "done" => \A i \in 1..Len(gcResult) : ~DenotesMetro(gcResult[i])

\* stage 3 returned a list from a page that named Travis county in lower case,
\* with padding, a tab, "County" and ",tx"
C5_Witness ==
  /\ gcPc = "done"
  /\ gcResult # <<>>
  /\ gcReq.property_sales > 0
  /\ \E i \in 1..Len(gcResp.rows) :
       /\ DenotesMetro(normalizeCountyName(gcResp.rows[i].county))
       /\ gcResp.rows[i].county \notin METRO_COUNTIES

\* C6: no error leaves getAllCounties; a stage is entered only after the stages
\* before it produced nothing, and the empty list is returned only after all
\* three stages were tried.
C6_NoErrorPropagates ==
  /\ gcPc # "threw"
  /\ gcPc \in {"stage2", "stage3"} => gcF1 = <<>>
  /\ gcPc = "stage3" => gcF2 = <<>>
  /\ (gcPc = "done" /\ gcResult = <<>>) =>
       (gcReq.sale_counties = 1 /\ gcReq.counties = 1 /\ gcReq.property_sales >= 1)

\* all three stages failed or were empty, and the empty list came back
C6_Witness ==
  /\ gcPc = "done"
  /\ gcResult = <<>>
  /\ gcReq.property_sales = MaxPages
  /\ gcSet = <<>>

\* C7: the returned list is sorted, has no duplicates, and every element is a
\* non-empty string ending in ' COUNTY'.
C7_SortedCanonicalList ==
  gcPc = "done" =>
    /\ \A i \in 1..Len(gcResult) : \A j \in 1..Len(gcResult) :
         i < j => LexLess(gcResult[i], gcResult[j])
    /\ \A i \in 1..Len(gcResult) :
         gcResult[i] # <<>> /\ endsWith(gcResult[i], CountySuffix)

(***************************************************************************)
(* Properties of normalizeCountyName.                                      *)
(***************************************************************************)
IsUpperCase(s) == \A i \in 1..Len(s) : ~(\E k \in 1..26 : LowerLetters[k] = s[i])

SingleSpaced(s) ==
  /\ \A i \in 1..Len(s) : s[i] # "\t"
  /\ \A i \in 1..(Len(s) - 1) : ~(s[i] = " " /\ s[i + 1] = " ")

NoTrailingState(s) ==
  /\ ~endsWith(s, <<",", " ", "T", "X">>)
  /\ ~endsWith(s, <<",", "T", "X">>)

Canonical(s) ==
  /\ IsUpperCase(s)
  /\ SingleSpaced(s)
  /\ NoTrailingState(s)
  /\ endsWith(s, CountySuffix)

\* C8 as stated: for all inputs the output is uppercase, single-spaced, has no
\* trailing ', TX' and ends with ' COUNTY'.
C8_CanonicalForAllInputs == nPc = "once" => Canonical(nOnce)

\* C8 as amended: for every non-empty input string the output is uppercase,
\* single-spaced, has no trailing ', TX' and ends with ' COUNTY'; for an empty
\* or missing input the output is the empty string.
C8_CanonicalForNonEmptyInputs ==
  nPc = "once" => IF nRaw = <<>> THEN nOnce = <<>> ELSE Canonical(nOnce)

\* a padded name with a double space inside, "County" and ",tx" behind it
C8_Witness ==
  /\ nPc = "once"
  /\ nRaw = <<"\t","S","a","n"," "," ","S","a","b","a"," ","C","o","u","n","t","y",
              " ",",","t","x"," ">>
  /\ nOnce = <<"S","A","N"," ","S","A","B","A"," ","C","O","U","N","T","Y">>

\* C9: normalizing twice equals normalizing once, for every input string.
C9_Idempotent == nPc = "twice" => nTwice = nOnce

(***************************************************************************)
(* JSON values, as the lien scripts receive them from the search site.     *)
(* A value is a record [t, v]: t is "null", "undef", "str", "arr" or       *)
(* "obj"; v is the string, the elements, or the <<key, value>> pairs in    *)
(* insertion order.                                                        *)
(***************************************************************************)
J(t, v) == [t |-> t, v |-> v]

\* o[k], o?.[k]: undefined unless o is an object that has the key
Get(o, k) ==
  IF o.t = "obj" /\ \E i \in 1..Len(o.v) : o.v[i][1] = k
  THEN o.v[CHOOSE i \in 1..Len(o.v) : o.v[i][1] = k][2]
  ELSE J("undef", <<>>)

\* the value counts as true in a condition
JTruthy(x) == ~(x.t \in {"null", "undef"} \/ (x.t = "str" /\ x.v = <<>>))

\* Object.values(x) of an object or an array
Values(x) ==
  IF x.t = "obj" THEN [i \in 1..Len(x.v) |-> x.v[i][2]]
  ELSE IF x.t = "arr" THEN x.v
  ELSE <<>>

\* JSON.stringify
RECURSIVE stringify(_)
stringify(x) ==
  LET RECURSIVE Joined(_)
      Joined(parts) ==
        IF parts = <<>> THEN <<>>
        ELSE IF Len(parts) = 1 THEN parts[1]
        ELSE parts[1] \o <<",">> \o Joined(Tail(parts))
      RECURSIVE Escape(_)
      Escape(s) ==
        IF s = <<>> THEN <<>>
        ELSE (IF Head(s) \in {"\"", "\\"} THEN <<"\\", Head(s)>> ELSE <<Head(s)>>)
             \o Escape(Tail(s))
      quoted(s) == <<"\"">> \o Escape(s) \o <<"\"">>
  IN  CASE x.t = "str" -> quoted(x.v)
        [] x.t = "arr" ->
             <<"[">> \o Joined([i \in 1..Len(x.v) |->
                                  IF x.v[i].t = "undef" THEN <<"n","u","l","l">>
                                  ELSE stringify(x.v[i])]) \o <<"]">>
        [] x.t = "obj" ->
             LET kept == SelectSeq(x.v, LAMBDA kv : kv[2].t # "undef")
             IN  <<"{">> \o Joined([i \in 1..Len(kept) |->
                                      quoted(kept[i][1]) \o <<":">> \o stringify(kept[i][2])])
                 \o <<"}">>
        [] OTHER -> <<"n","u","l","l">>

\* String.prototype.toLowerCase
toLowerCase(s) ==
  [i \in 1..Len(s) |->
     IF \E k \in 1..26 : UpperLetters[k] = s[i]
     THEN LowerLetters[CHOOSE k \in 1..26 : UpperLetters[k] = s[i]]
     ELSE s[i]]

(***************************************************************************)
(* The regular expressions of extractLienInfo.  A match is the matched     *)
(* text; <<>> is null (no match).                                          *)
(***************************************************************************)
\* s.match(/\d{4}-\d{2}-\d{2}/)
MatchIso(s) ==
  LET digit(c) == \E d \in 1..10 : Digits[d] = c
      at(i) == /\ \A k \in {0, 1, 2, 3, 5, 6, 8, 9} : digit(s[i + k])
               /\ s[i + 4] = "-"
               /\ s[i + 7] = "-"
      starts == {i \in 1..(Len(s) - 9) : at(i)}
      first == CHOOSE i \in starts : \A j \in starts : i <= j
  IN  IF starts = {} THEN <<>> ELSE SubSeq(s, first, first + 9)

\* s.match(/\d{1,2}\/\d{1,2}\/\d{2,4}/): each quantifier takes as many digits
\* as the rest of the pattern allows, the earlier quantifier first
MatchUS(s) ==
  LET digit(c) == \E d \in 1..10 : Digits[d] = c
      digits(from, n) == from + n - 1 <= Len(s) /\ \A k \in from..(from + n - 1) : digit(s[k])
      slash(i) == i <= Len(s) /\ s[i] = "/"
      fits(i, a, b, c) ==
        /\ digits(i, a) /\ slash(i + a)
        /\ digits(i + a + 1, b) /\ slash(i + a + b + 1)
        /\ digits(i + a + b + 2, c)
      shapes(i) == {q \in {1, 2} \X {1, 2} \X {2, 3, 4} : fits(i, q[1], q[2], q[3])}
      starts == {i \in 1..Len(s) : shapes(i) # {}}
      rank(q) == 100 * q[1] + 10 * q[2] + q[3]
  IN  IF starts = {} THEN <<>>
      ELSE LET i == CHOOSE x \in starts : \A y \in starts : x <= y
               q == CHOOSE x \in shapes(i) : \A y \in shapes(i) : rank(y) <= rank(x)
           IN  SubSeq(s, i, i + q[1] + q[2] + q[3] + 1)

\* s.match(/(https?:\/\/[^\s"']+|\/[^\s"']+\.(pdf|htm|html))/i).  In the second
\* alternative the path is as long as possible, and `htm` is tried before
\* `html`, so the match of a path ending in .html ends at .htm
MatchUrl(s) ==
  LET n == Len(s)
      inClass(c) == ~IsWs(c) /\ c \notin {"\"", "'"}
      lower == toLowerCase(s)
      \* last position of the run of class characters that starts at i
      runEnd(i) == CHOOSE e \in (i - 1)..n :
                     /\ \A k \in i..e : inClass(s[k])
                     /\ (e = n \/ ~inClass(s[e + 1]))
      prefix(i, w) == i + Len(w) - 1 <= n /\ SubSeq(lower, i, i + Len(w) - 1) = w
      scheme(i) == IF prefix(i, <<"h","t","t","p","s",":","/","/">>) THEN 8
                   ELSE IF prefix(i, <<"h","t","t","p",":","/","/">>) THEN 7 ELSE 0
      absolute(i) == scheme(i) > 0 /\ runEnd(i + scheme(i)) >= i + scheme(i)
      dots(i) == {j \in (i + 2)..(n - 3) :
                    /\ s[j] = "."
                    /\ j - 1 <= runEnd(i + 1)
                    /\ SubSeq(lower, j + 1, j + 3) \in {<<"p","d","f">>, <<"h","t","m">>}}
      path(i) == s[i] = "/" /\ dots(i) # {}
      starts == {i \in 1..n : absolute(i) \/ path(i)}
  IN  IF starts = {} THEN <<>>
      ELSE LET i == CHOOSE x \in starts : \A y \in starts : x <= y
           IN  IF absolute(i) THEN SubSeq(s, i, runEnd(i + scheme(i)))
               ELSE SubSeq(s, i, (CHOOSE j \in dots(i) : \A k \in dots(i) : k <= j) + 3)

\* new Date(text).getTime() for the texts the two date patterns match, in
\* days; -1 is NaN (Invalid Date)
DateValue(text) ==
  LET val(c) == (CHOOSE i \in 1..10 : Digits[i] = c) - 1
      RECURSIVE Num(_)
      Num(ds) == IF ds = <<>> THEN 0 ELSE 10 * Num(SubSeq(ds, 1, Len(ds) - 1)) + val(ds[Len(ds)])
      day(y, m, d) == IF m \in 1..12 /\ d \in 1..31 THEN 372 * y + 31 * m + d ELSE -1
      cuts == {i \in 1..Len(text) : text[i] = "/"}
  IN  IF MatchIso(text) = text
      THEN day(Num(SubSeq(text, 1, 4)), Num(SubSeq(text, 6, 7)), Num(SubSeq(text, 9, 10)))
      ELSE IF MatchUS(text) = text /\ text # <<>>
      THEN LET c1 == CHOOSE i \in cuts : \A j \in cuts : i <= j
               c2 == CHOOSE i \in cuts : \A j \in cuts : j <= i
               yy == Num(SubSeq(text, c2 + 1, Len(text)))
               y  == IF Len(text) - c2 # 2 THEN yy ELSE IF yy < 50 THEN 2000 + yy ELSE 1900 + yy
           IN  day(y, Num(SubSeq(text, 1, c1 - 1)), Num(SubSeq(text, c1 + 1, c2 - 1)))
      ELSE -1

(***************************************************************************)
(* extractLienInfo (cookie-jar script)                                     *)
(***************************************************************************)
LIEN_KEYWORDS ==
  << <<"L","I","E","N">>, <<"M","E","C","H","A","N","I","C","S"," ","L","I","E","N">>, <<"H","O","S","P","I","T","A","L"," ","L","I","E","N">>,
     <<"T","A","X"," ","L","I","E","N"," ","F","E","D","E","R","A","L">>, <<"T","A","X"," ","L","I","E","N"," ","S","T","A","T","E">>,
     <<"L","I","S"," ","P","E","N","D","E","N","S">>, <<"J","U","D","G","E","M","E","N","T">>, <<"U","C","C">>,
     <<"N","O","T","I","C","E"," ","O","F"," ","T","R","U","S","T","E","E"," ","S","A","L","E">>, <<"D","E","E","D"," ","O","F"," ","T","R","U","S","T">>,
     <<"R","E","L","E","A","S","E">> >>

\* LIEN_KEYWORDS.some(k => s.toUpperCase().includes(k.toUpperCase())); the
\* tree search compares in lower case instead, with the same result
HasLienKeyword(s) ==
  LET upper == toUpperCase(s)
  IN  \E i \in 1..Len(LIEN_KEYWORDS) : includes(upper, toUpperCase(LIEN_KEYWORDS[i]))

\* the summary returned when nothing matches
NoLiens ==
  [ lien_present |-> FALSE, lien_types |-> <<>>, lien_count |-> 0,
    last_lien_date |-> <<>>, matching_doc_urls |-> <<>> ]

\* the chain of `if`s over the known shapes: the first test that passes
\* decides, and `hits` stays [] when none does
KnownPathHits(r) ==
  LET response == <<"r","e","s","p","o","n","s","e">>
      data == <<"d","a","t","a">>
      hits == <<"h","i","t","s">>
      a == Get(Get(Get(Get(Get(r, response), response), data), hits), hits)
      b == Get(Get(Get(Get(r, response), data), hits), hits)
      c == Get(r, hits)
      d == Get(Get(r, response), hits)
  IN  IF JTruthy(a) THEN a
      ELSE IF JTruthy(b) THEN b
      ELSE IF c.t = "arr" THEN c
      ELSE IF JTruthy(d) THEN d
      ELSE J("arr", <<>>)

\* !hits || hits.length === 0
NoHits(h) == ~JTruthy(h) \/ (h.t \in {"arr", "str"} /\ Len(h.v) = 0)

\* both tree searches.  `scan` collects the arrays whose serialized first
\* five elements contain one of the needles, in the order they are met; an
\* array that is not a candidate has its first five elements scanned.  The
\* sort by descending length puts the first of the longest candidates in
\* front; the result is null when there is no candidate
TreeSearch(r, needles) ==
  LET RECURSIVE scan(_)
      scan(o) ==
        LET RECURSIVE each(_)
            each(list) == IF list = <<>> THEN <<>> ELSE scan(Head(list)) \o each(Tail(list))
            first5 == SubSeq(o.v, 1, IF Len(o.v) < 5 THEN Len(o.v) ELSE 5)
            sample == toLowerCase(stringify(J("arr", first5)))
        IN  IF o.t = "arr"
            THEN IF \E i \in 1..Len(needles) : includes(sample, toLowerCase(needles[i]))
                 THEN <<o>>
                 ELSE each(first5)
            ELSE IF o.t = "obj" THEN each(Values(o))
            ELSE <<>>
      found == scan(r)
  IN  IF found = <<>> THEN J("null", <<>>)
      ELSE found[CHOOSE i \in 1..Len(found) :
                   /\ \A j \in 1..Len(found) : Len(found[j].v) <= Len(found[i].v)
                   /\ \A j \in 1..(i - 1) : Len(found[j].v) < Len(found[i].v)]

\* findCandidateArrayByText(apiResponse, searchName.split(/[ ,]+/)[0] || searchName):
\* `lower &&` keeps an empty text from matching
ByName(r, name) ==
  LET seps == {i \in 1..Len(name) : name[i] \in {" ", ","}}
      head == IF seps = {} THEN name
              ELSE SubSeq(name, 1, (CHOOSE i \in seps : \A j \in seps : i <= j) - 1)
      text == IF head # <<>> THEN head ELSE name
  IN  TreeSearch(r, IF text = <<>> THEN <<>> ELSE <<text>>)

\* findByLienKeyword(apiResponse)
ByLienKeyword(r) == TreeSearch(r, LIEN_KEYWORDS)

\* the value of `hits` when the loop over the items starts
ResolveHits(r, name) ==
  LET known == KnownPathHits(r)
      named == IF NoHits(known) /\ name # <<>>
               THEN LET candidate == ByName(r, name)
                    IN  IF candidate.t = "arr" /\ Len(candidate.v) > 0 THEN candidate ELSE known
               ELSE known
  IN  IF NoHits(named)
      THEN LET byLien == ByLienKeyword(r)
           IN  IF JTruthy(byLien) THEN byLien ELSE named
      ELSE named

\* faulty variant: the serialized item is compared without upper-casing it
ItemHasLien_CaseSensitive(item) ==
  LET s == stringify(IF JTruthy(item) THEN item ELSE J("str", <<>>))
  IN  \E i \in 1..Len(LIEN_KEYWORDS) : includes(s, LIEN_KEYWORDS[i])

\* hasLien of one item: JSON.stringify(item || '').toUpperCase() contains a keyword
ItemHasLien(item) ==
  HasLienKeyword(stringify(IF JTruthy(item) THEN item ELSE J("str", <<>>)))

\* the items `for (const item of hits)` visits: the elements of an array,
\* the characters of a string
ItemsOf(hits) ==
  IF hits.t = "arr" THEN hits.v
  ELSE [i \in 1..Len(hits.v) |-> J("str", <<hits.v[i]>>)]

\* the loop over the items, from the locals in `acc`; an item without a
\* keyword is skipped
RECURSIVE LienLoop(_, _)
LienLoop(items, acc) ==
  LET item == Head(items)
      isObject == item.t \in {"obj", "arr"}
      strings == SelectSeq(Values(item), LAMBDA x : x.t = "str")
      \* String(x)
      RECURSIVE String(_)
      String(x) ==
        LET RECURSIVE Joined(_)
            Joined(parts) ==
              IF parts = <<>> THEN <<>>
              ELSE IF Len(parts) = 1 THEN parts[1]
              ELSE parts[1] \o <<",">> \o Joined(Tail(parts))
        IN  CASE x.t = "str" -> x.v
              [] x.t = "arr" -> Joined([i \in 1..Len(x.v) |->
                                          IF x.v[i].t \in {"null", "undef"} THEN <<>>
                                          ELSE String(x.v[i])])
              [] x.t = "obj" -> <<"[","o","b","j","e","c","t"," ","O","b","j","e","c","t","]">>
              [] x.t = "null" -> <<"n","u","l","l">>
              [] OTHER -> <<"u","n","d","e","f","i","n","e","d">>
      \* type: the first truthy probed property, else the first string value
      \* that contains a keyword
      probes == << <<"t","y","p","e">>, <<"d","o","c","u","m","e","n","t","_","t","y","p","e">>, <<"d","o","c","_","t","y","p","e">>, <<"i","n","s","t","r","u","m","e","n","t","_","t","y","p","e">>,
                   <<"t","i","t","l","e">>, <<"t","o","p","i","c">>, <<"n","a","m","e">> >>
      probed == SelectSeq([i \in 1..Len(probes) |-> Get(item, probes[i])], JTruthy)
      keyed == SelectSeq(strings, LAMBDA x : HasLienKeyword(x.v))
      type == IF ~isObject THEN J("undef", <<>>)
              ELSE IF probed # <<>> THEN probed[1]
              ELSE IF keyed # <<>> THEN keyed[1]
              ELSE J("undef", <<>>)
      \* foundDate: the match in the first string value that holds a date
      \* (the ISO pattern first), or in the item itself when it is a string
      date(s) == IF MatchIso(s) # <<>> THEN MatchIso(s) ELSE MatchUS(s)
      dated == SelectSeq(strings, LAMBDA x : date(x.v) # <<>>)
      foundDate == IF isObject THEN (IF dated = <<>> THEN <<>> ELSE date(dated[1].v))
                   ELSE IF item.t = "str" THEN date(item.v)
                   ELSE <<>>
      \* lastLienDate is replaced when it was null or the found date is later
      later == \/ acc.lastLienDate = <<>>
               \/ /\ DateValue(foundDate) # -1
                  /\ DateValue(acc.lastLienDate) # -1
                  /\ DateValue(foundDate) > DateValue(acc.lastLienDate)
      \* the URL matches of the string values, or of the item itself
      linked == SelectSeq(strings, LAMBDA x : MatchUrl(x.v) # <<>>)
      urls == IF isObject THEN [i \in 1..Len(linked) |-> MatchUrl(linked[i].v)]
              ELSE IF item.t = "str" /\ MatchUrl(item.v) # <<>> THEN <<MatchUrl(item.v)>>
              ELSE <<>>
  IN  IF items = <<>> THEN acc
      ELSE IF ~ItemHasLien(item) THEN LienLoop(Tail(items), acc)
      ELSE LienLoop(Tail(items),
             [ lienTypes |-> IF JTruthy(type)
                             THEN Dedupe(Append(acc.lienTypes, trim(String(type))))
                             ELSE acc.lienTypes,
               lastLienDate |-> IF foundDate # <<>> /\ later THEN foundDate
                                ELSE acc.lastLienDate,
               matchingUrls |-> Dedupe(acc.matchingUrls \o urls),
               matchingCount |-> acc.matchingCount + 1 ])

\* the body of the outer try: either a summary, or an exception (iterating
\* a value that is neither an array nor a string)
LienBody(r, name) ==
  LET hits == ResolveHits(r, name)
      end == LienLoop(ItemsOf(hits), [lienTypes |-> <<>>, lastLienDate |-> <<>>,
                                      matchingUrls |-> <<>>, matchingCount |-> 0])
  IN  IF NoHits(hits) THEN [threw |-> FALSE, info |-> NoLiens]
      ELSE IF hits.t \notin {"arr", "str"} THEN [threw |-> TRUE, info |-> NoLiens]
      ELSE IF end.matchingCount = 0 THEN [threw |-> FALSE, info |-> NoLiens]
      ELSE [ threw |-> FALSE,
             info |-> [ lien_present |-> TRUE, lien_types |-> end.lienTypes,
                        lien_count |-> end.matchingCount,
                        last_lien_date |-> end.lastLienDate,
                        matching_doc_urls |-> end.matchingUrls ] ]

\* faulty variant: the outer catch lets the exception through
LienCatch_Rethrow(outcome) == outcome

\* the outer catch: an exception becomes the empty summary
LienCatch(outcome) == IF outcome.threw THEN [threw |-> FALSE, info |-> NoLiens] ELSE outcome

extractLienInfo(r, name) == LienCatch(LienBody(r, name))

(***************************************************************************)
(* Responses and names extractLienInfo is applied to.                      *)
(***************************************************************************)
\* most items in one hit list
MaxHits == 2

\* a flat item, the same document under _source (the shape of a
\* search-engine hit), and items without a keyword, with a US date, with
\* URLs, a string item and a null item
HitItems ==
  LET str(s) == J("str", s)
      flat == J("obj", << <<<<"t","y","p","e">>, str(<<"U","C","C">>)>>, <<<<"d","a","t","e">>, str(<<"2","0","2","3","-","0","5","-","0","1">>)>> >>)
  IN  { flat,
        J("obj", << <<<<"_","s","o","u","r","c","e">>, flat>> >>),
        J("obj", << <<<<"t","y","p","e">>, str(<<"D","e","e","d">>)>>, <<<<"b","y">>, str(<<"A","N","N"," ","L","E","E">>)>>,
                    <<<<"d","a","t","e">>, str(<<"2","0","2","4","-","0","1","-","1","5">>)>> >>),
        J("obj", << <<<<"d","o","c">>, str(<<"T","a","x"," ","L","i","e","n">>)>>, <<<<"o","n">>, str(<<"6","/","1","/","2","0","2","4">>)>>,
                    <<<<"u","r","l">>, str(<<"/","d","/","7",".","h","t","m","l">>)>> >>),
        J("obj", << <<<<"t","y","p","e">>, str(<<" ","U","C","C">>)>>, <<<<"d","a","t","e">>, str(<<"2","0","2","2","-","0","3","-","0","9">>)>>,
                    <<<<"u","r","l">>, str(<<"s","e","e"," ","h","t","t","p","s",":","/","/","t",".","c","o","/","1",".","p","d","f">>)>> >>),
        str(<<"r","e","l","e","a","s","e"," ","2","0","2","1","-","1","2","-","3","1">>),
        J("null", <<>>) }

\* the response bodies: a hit list under each known path, under an unknown
\* key, at the top, and next to a list longer than every hit list; then
\* bodies without any list
LienResponses ==
  LET response == <<"r","e","s","p","o","n","s","e">>
      data == <<"d","a","t","a">>
      hits == <<"h","i","t","s">>
      str(s) == J("str", s)
      under(keys, x) ==
        LET RECURSIVE Wrap(_)
            Wrap(ks) == IF ks = <<>> THEN x ELSE J("obj", << <<Head(ks), Wrap(Tail(ks))>> >>)
        IN  Wrap(keys)
      lists == UNION {[1..n -> HitItems] : n \in 0..MaxHits}
      ucc == J("obj", << <<<<"t","y","p","e">>, str(<<"U","C","C">>)>>, <<<<"d","a","t","e">>, str(<<"2","0","2","3","-","0","5","-","0","1">>)>> >>)
  IN  UNION { { under(<<response, response, data, hits, hits>>, J("arr", l)),
                under(<<response, data, hits, hits>>, J("arr", l)),
                under(<<hits>>, J("arr", l)),
                under(<<response, hits>>, J("arr", l)),
                under(<<<<"r","o","w","s">>>>, J("arr", l)),
                J("arr", l),
                J("obj", << <<hits, J("arr", l)>>,
                            <<<<"r","o","w","s">>, J("arr", [i \in 1..(MaxHits + 2) |-> ucc])>> >>) }
              : l \in lists }
      \cup { J("null", <<>>),
             str(<<>>),
             str(<<"<","h","t","m","l",">","U","C","C","<","/","h","t","m","l",">">>),
             J("obj", <<>>),
             under(<<response, hits>>, J("obj", << <<<<"t","o","t","a","l">>, str(<<"1"," ","U","C","C">>)>> >>)),
             under(<<response, hits>>, str(<<"U","C","C">>)),
             under(<<data, <<"c","i","t","i","e","s","_","l","i","s","t">>>>, J("arr", <<str(<<"A","u","s","t","i","n">>)>>)) }

LienNames == { <<>>, <<"A","n","n"," ","L","e","e">>, <<",","L","e","e">> }

InitLien ==
  /\ lPc = "in"
  /\ apiResponse \in LienResponses
  /\ searchName \in LienNames
  /\ lienInfo = <<>>
  /\ IdleOld /\ IdleBut("lien")

\* one call of extractLienInfo(apiResponse, searchName)
LienExtract ==
  /\ lPc = "in"
  /\ lienInfo' = extractLienInfo(apiResponse, searchName)
  /\ lPc' = "done"
  /\ UNCHANGED <<apiResponse, searchName>>
  /\ UNCHANGED <<varsNorm, varsGc, varsAddr, varsVac, varsSort, varsPg, varsTf,
               varsMain, varsEnr>>

SpecLien == InitLien /\ [][LienExtract]_vars

(***************************************************************************)
(* Claims about extractLienInfo.                                           *)
(***************************************************************************)
\* the items of a value as a hit list: none when it is not iterable
ListedItems(hits) == IF hits.t \in {"arr", "str"} THEN ItemsOf(hits) ELSE <<>>

\* the serialized form of the item contains a lien keyword, in any case
SerializedHasKeyword(item) ==
  item.t \in {"str", "arr", "obj"} /\ HasLienKeyword(stringify(item))

NoDuplicates(list) == \A i, j \in 1..Len(list) : list[i] = list[j] => i = j

\* the name search found a non-empty array
NameSearchFinds(r, name) ==
  name # <<>> /\ ByName(r, name).t = "arr" /\ Len(ByName(r, name).v) > 0

\* C11 as stated: extractLienInfo returns without throwing, and a response
\* with no hit list under a known path yields the empty summary.
C11_EmptyWithoutKnownPath ==
  lPc = "done" =>
    /\ ~lienInfo.threw
    /\ NoHits(KnownPathHits(apiResponse)) => lienInfo.info = NoLiens

\* C11: extractLienInfo returns without throwing for every response, and a
\* response in which neither a known path nor the name search nor the
\* keyword search finds a non-empty list yields the empty summary.
C11_EmptyWhenNothingFound ==
  lPc = "done" =>
    /\ ~lienInfo.threw
    /\ ( /\ NoHits(KnownPathHits(apiResponse))
         /\ ~NameSearchFinds(apiResponse, searchName)
         /\ ~JTruthy(ByLienKeyword(apiResponse)) )
       => lienInfo.info = NoLiens

\* the loop threw on a hit value that cannot be iterated, and the caller
\* still received the empty summary
C11_Witness ==
  /\ lPc = "done"
  /\ LienBody(apiResponse, searchName).threw
  /\ lienInfo = [threw |-> FALSE, info |-> NoLiens]

\* C12: lien_count is the number of items of the resolved hit list whose
\* serialized form contains a lien keyword; lien_present holds exactly when
\* that count is at least 1; lien_types and matching_doc_urls have no
\* duplicates; a non-empty known-path list is the resolved list, the name
\* search decides only when the known paths gave nothing, and the keyword
\* search only when the name search gave nothing either.
C12_CountAndResolution ==
  lPc = "done" =>
    LET known == KnownPathHits(apiResponse)
        resolved == ResolveHits(apiResponse, searchName)
        items == ListedItems(resolved)
        info == lienInfo.info
    IN  /\ info.lien_count = Cardinality({i \in 1..Len(items) : SerializedHasKeyword(items[i])})
        /\ info.lien_present <=> info.lien_count >= 1
        /\ NoDuplicates(info.lien_types)
        /\ NoDuplicates(info.matching_doc_urls)
        /\ ~NoHits(known) => resolved = known
        /\ resolved # known =>
             IF NameSearchFinds(apiResponse, searchName)
             THEN resolved = ByName(apiResponse, searchName)
             ELSE resolved = ByLienKeyword(apiResponse)

\* a known-path list holding the same matching item twice, with its type
\* and its document URL, next to a longer list the tree search would have
\* preferred: both are counted, type and URL are listed once
C12_Witness ==
  /\ lPc = "done"
  /\ Get(apiResponse, <<"r","o","w","s">>).t = "arr"
  /\ Len(KnownPathHits(apiResponse).v) = 2
  /\ KnownPathHits(apiResponse).v[1] = KnownPathHits(apiResponse).v[2]
  /\ lienInfo.info.lien_count = 2
  /\ lienInfo.info.lien_types = << <<"U","C","C">> >>
  /\ Len(lienInfo.info.matching_doc_urls) = 1

\* the date texts of the serialized items that contain a keyword
DatesSeen(items) ==
  LET text(i) == stringify(items[i])
      date(i) == IF MatchIso(text(i)) # <<>> THEN MatchIso(text(i)) ELSE MatchUS(text(i))
  IN  {date(i) : i \in {k \in 1..Len(items) : SerializedHasKeyword(items[k])}} \ {<<>>}

\* C13: one hit item whose serialized form contains 'UCC' and '2023-05-01'
\* gives lien_present, lien_count 1, a lien type containing UCC and
\* last_lien_date '2023-05-01'; in general last_lien_date is the latest
\* date over the matching items, wherever in the item keyword and date sit.
C13_UccItemAndLatestDate ==
  lPc = "done" =>
    LET items == ListedItems(ResolveHits(apiResponse, searchName))
        info == lienInfo.info
        seen == DatesSeen(items)
    IN  /\ ( /\ Len(items) = 1
             /\ includes(stringify(items[1]), <<"U","C","C">>)
             /\ includes(stringify(items[1]), <<"2","0","2","3","-","0","5","-","0","1">>) )
           => /\ info.lien_present
              /\ info.lien_count = 1
              /\ \E i \in 1..Len(info.lien_types) : includes(info.lien_types[i], <<"U","C","C">>)
              /\ info.last_lien_date = <<"2","0","2","3","-","0","5","-","0","1">>
        /\ seen # {} =>
             /\ info.last_lien_date \in seen
             /\ \A d \in seen : DateValue(d) <= DateValue(info.last_lien_date)

(***************************************************************************)
(* The final sort of main (lgb-scrape-NoMetro.js and its variant).         *)
(***************************************************************************)
\* most records collected before the sort
MaxRecords == 3

\* faulty variant: the decimal point is removed with the other characters
NumericBid_DigitsOnly(minBid) ==
  LET val(c) == (CHOOSE d \in 1..10 : Digits[d] = c) - 1
      kept == SelectSeq(minBid, LAMBDA c : \E d \in 1..10 : Digits[d] = c)
      RECURSIVE Num(_)
      Num(ds) == IF ds = <<>> THEN 0 ELSE 10 * Num(SubSeq(ds, 1, Len(ds) - 1)) + val(ds[Len(ds)])
  IN  <<Num(kept), 0>>

\* parseFloat((r.min_bid || '').toString().replace(/[^0-9.]/g, '')) || 0, as
\* the pair <<m, d>> that stands for m / 10^d.  parseFloat reads the longest
\* prefix of the form digits, digits.digits or .digits, and gives NaN (here
\* replaced by 0) when that prefix holds no digit
NumericBid(minBid) ==
  LET digit(c) == \E d \in 1..10 : Digits[d] = c
      val(c) == (CHOOSE d \in 1..10 : Digits[d] = c) - 1
      kept == SelectSeq(minBid, LAMBDA c : digit(c) \/ c = ".")
      dots == {i \in 1..Len(kept) : kept[i] = "."}
      dot1 == IF dots = {} THEN Len(kept) + 1 ELSE CHOOSE i \in dots : \A j \in dots : i <= j
      dot2 == IF dots \ {dot1} = {} THEN Len(kept) + 1
              ELSE CHOOSE i \in dots \ {dot1} : \A j \in dots \ {dot1} : i <= j
      whole == SubSeq(kept, 1, dot1 - 1)
      fraction == SubSeq(kept, dot1 + 1, dot2 - 1)
      RECURSIVE Num(_)
      Num(ds) == IF ds = <<>> THEN 0 ELSE 10 * Num(SubSeq(ds, 1, Len(ds) - 1)) + val(ds[Len(ds)])
  IN  IF whole = <<>> /\ fraction = <<>> THEN <<0, 0>>
      ELSE <<Num(whole \o fraction), Len(fraction)>>

\* the comparator: the sign of aNum - bNum
CompareBids(a, b) ==
  LET RECURSIVE Pow10(_)
      Pow10(k) == IF k = 0 THEN 1 ELSE 10 * Pow10(k - 1)
      x == NumericBid(a.min_bid)
      y == NumericBid(b.min_bid)
      diff == x[1] * Pow10(y[2]) - y[1] * Pow10(x[2])
  IN  IF diff < 0 THEN -1 ELSE IF diff > 0 THEN 1 ELSE 0

\* results.sort(comparator): Array.prototype.sort is stable, so a record
\* goes behind every record that does not compare greater
RECURSIVE SortByBid(_)
SortByBid(list) ==
  IF list = <<>> THEN <<>>
  ELSE LET front == SortByBid(SubSeq(list, 1, Len(list) - 1))
           last == list[Len(list)]
           stay == {i \in 1..Len(front) : CompareBids(front[i], last) <= 0}
           k == IF stay = {} THEN 0 ELSE CHOOSE i \in stay : \A j \in stay : j <= i
       IN  SubSeq(front, 1, k) \o <<last>> \o SubSeq(front, k + 1, Len(front))

\* the min_bid texts of the collected records; <<>> is a missing bid
BidTexts == { <<>>, <<"a","b","c">>, <<"$","5","0","0">>, <<"5","0","0",".","0">>, <<"$","1",",","2","0","0">>, <<"7",".","5","0">>, <<"1",".","2",".","3">> }

\* the records in collection order; uid is the place in that order
CollectedLists ==
  UNION { { [i \in 1..n |-> [uid |-> i, min_bid |-> bids[i]]] : bids \in [1..n -> BidTexts] }
          : n \in 0..MaxRecords }

InitSort ==
  /\ sortPc = "collected"
  /\ collected \in CollectedLists
  /\ written = <<>>
  /\ IdleOld /\ IdleBut("sort")

\* the end of main: nothing is written when no record was collected, else
\* the records are sorted and written
MainWrite ==
  /\ sortPc = "collected"
  /\ IF collected = <<>>
     THEN sortPc' = "returned" /\ written' = <<>>
     ELSE sortPc' = "written" /\ written' = SortByBid(collected)
  /\ UNCHANGED collected
  /\ UNCHANGED <<varsNorm, varsGc, varsAddr, varsVac, varsLien, varsPg, varsTf,
               varsMain, varsEnr>>

SpecSort == InitSort /\ [][MainWrite]_vars

\* the bid of a record in hundredths, for the texts of BidTexts
Hundredths(text) ==
  CASE text = <<"$","5","0","0">> -> 50000
    [] text = <<"5","0","0",".","0">> -> 50000
    [] text = <<"$","1",",","2","0","0">> -> 120000
    [] text = <<"7",".","5","0">> -> 750
    [] text = <<"1",".","2",".","3">> -> 120
    [] OTHER -> 0

\* C14: the written records are the collected records in ascending order
\* of the numeric minimum bid (every character but digits and '.' removed,
\* a missing or non-numeric bid counting as 0); records with equal numeric
\* bid keep their collection order; '$1,200', 'abc', '$500' are written in
\* the order 'abc', '$500', '$1,200'.
C14_SortedByNumericBid ==
  sortPc = "written" =>
    /\ Len(written) = Len(collected)
    /\ \A i \in 1..Len(collected) : \E j \in 1..Len(written) : written[j] = collected[i]
    /\ \A i, j \in 1..Len(written) :
         i < j => \/ Hundredths(written[i].min_bid) < Hundredths(written[j].min_bid)
                  \/ /\ Hundredths(written[i].min_bid) = Hundredths(written[j].min_bid)
                     /\ written[i].uid < written[j].uid

\* the example of the specification, sorted
C14_Witness ==
  /\ sortPc = "written"
  /\ [i \in 1..Len(collected) |-> collected[i].min_bid] = << <<"$","1",",","2","0","0">>, <<"a","b","c">>, <<"$","5","0","0">> >>
  /\ [i \in 1..Len(written) |-> written[i].min_bid] = << <<"a","b","c">>, <<"$","5","0","0">>, <<"$","1",",","2","0","0">> >>

(***************************************************************************)
(* getProperties: the walk over the pages of property_sales.               *)
(***************************************************************************)
\* most requests of one walk
MaxWalk == 4

\* const limit = 600
limit == 600

\* the answers to one request: the request fails, or a page arrives with n
\* results and with or without a `next`
PageAnswers ==
  [error : {TRUE}, n : {0}, next : {FALSE}]
    \cup [error : {FALSE}, n : {0, 1, 400, limit}, next : BOOLEAN]

\* data.results of the page served at an offset: the records are numbered
\* as the server counts them
PageResults(offset, n) == [i \in 1..n |-> offset + i]

\* faulty variant: only an empty page ends the walk
WalkEnds_OnEmptyOnly(page) == page.n = 0

\* the two `break`s: !data?.results?.length, and !data.next
WalkEnds(page) == page.n = 0 \/ ~page.next

InitPg ==
  /\ pgPc = "fetch"
  /\ pgOffset = 0
  /\ pgAll = <<>>
  /\ pgLog = <<>>
  /\ IdleOld /\ IdleBut("pg")

\* one turn of the loop: the request at `offset`, the two tests, the push,
\* the advance and the pause; a failed request is logged and rethrown
GetPropertiesPage ==
  /\ pgPc = "fetch"
  /\ Len(pgLog) < MaxWalk
  /\ \E page \in PageAnswers :
       /\ pgLog' = Append(pgLog, [offset |-> pgOffset, page |-> page])
       /\ pgAll' = IF page.error THEN pgAll ELSE pgAll \o PageResults(pgOffset, page.n)
       /\ pgPc' = IF page.error THEN "threw" ELSE IF WalkEnds(page) THEN "done" ELSE "fetch"
       /\ pgOffset' = IF page.error \/ WalkEnds(page) THEN pgOffset ELSE pgOffset + limit
  /\ UNCHANGED <<varsNorm, varsGc, varsAddr, varsVac, varsLien, varsSort, varsTf,
               varsMain, varsEnr>>

SpecPg == InitPg /\ [][GetPropertiesPage]_vars

\* the results of the pages of a log, one after the other
RECURSIVE Concatenated(_)
Concatenated(log) ==
  IF log = <<>> THEN <<>>
  ELSE Concatenated(SubSeq(log, 1, Len(log) - 1))
       \o PageResults(log[Len(log)].offset, log[Len(log)].page.n)

\* C15: the requests go to the offsets 0, limit, 2*limit, ...; no request
\* follows a page with zero results or without next, and the walk is over
\* as soon as such a page arrives; the returned list is the concatenation,
\* in order, of the results of every page fetched.
C15_PaginationWalk ==
  /\ \A k \in 1..Len(pgLog) : pgLog[k].offset = (k - 1) * limit
  /\ \A k \in 1..(Len(pgLog) - 1) :
       ~pgLog[k].page.error /\ pgLog[k].page.n > 0 /\ pgLog[k].page.next
  /\ \A k \in 1..Len(pgLog) :
       (~pgLog[k].page.error /\ (pgLog[k].page.n = 0 \/ ~pgLog[k].page.next))
         => k = Len(pgLog) /\ pgPc = "done"
  /\ pgPc = "done" => pgAll = Concatenated(pgLog)

\* page 1 with 600 results and next, page 2 with 400 results and no next:
\* 1000 results after 2 requests
C15_Witness ==
  /\ pgPc = "done"
  /\ Len(pgLog) = 2
  /\ pgLog[1].page = [error |-> FALSE, n |-> 600, next |-> TRUE]
  /\ pgLog[2].page = [error |-> FALSE, n |-> 400, next |-> FALSE]
  /\ Len(pgAll) = 1000
  /\ pgAll = [i \in 1..1000 |-> i]

(***************************************************************************)
(* The cookie-jar lien script: processCSV calling getTexasFileData and     *)
(* extractLienInfo for each row.                                           *)
(***************************************************************************)
\* const maxRetries = 2
maxRetries == 2

\* the rows read from texas-future-sales.csv
CsvRows ==
  << [County |-> <<"B","E","L","L"," ","C","O","U","N","T","Y">>, Name |-> <<"A","n","n"," ","L","e","e">>],
     [County |-> <<"H","A","Y","S"," ","C","O","U","N","T","Y">>, Name |-> <<"B","o"," ","R","a","y">>] >>

\* no response
NoResp == [type |-> <<>>, data |-> J("undef", <<>>)]

\* the answers to the results GET when the request itself succeeds: search
\* hits, the site-navigation payload, an HTML page, an empty HTML body, and
\* search hits without a content-type header
ResultsAnswers ==
  LET str(s) == J("str", s)
      hit == J("obj", << <<<<"t","y","p","e">>, str(<<"U","C","C">>)>>, <<<<"d","a","t","e">>, str(<<"2","0","2","3","-","0","5","-","0","1">>)>> >>)
      hits == J("obj", << <<<<"h","i","t","s">>, J("arr", <<hit>>)>> >>)
      nav == J("obj", << <<<<"d","a","t","a">>,
                          J("obj", << <<<<"c","i","t","i","e","s","_","l","i","s","t">>, J("arr", <<str(<<"A","u","s","t","i","n">>)>>)>> >>)>> >>)
  IN  { [type |-> <<"a","p","p","l","i","c","a","t","i","o","n","/","j","s","o","n">>, data |-> hits],
        [type |-> <<"a","p","p","l","i","c","a","t","i","o","n","/","j","s","o","n",";"," ","c","h","a","r","s","e","t","=","u","t","f","-","8">>, data |-> nav],
        [type |-> <<"t","e","x","t","/","h","t","m","l">>, data |-> str(<<"<","h","t","m","l",">","S","i","g","n"," ","i","n","<","/","h","t","m","l",">">>)],
        [type |-> <<"t","e","x","t","/","h","t","m","l">>, data |-> str(<<>>)],
        [type |-> <<>>, data |-> hits] }

\* one entry of the log of a call: the step, how it went ("ok", "cert" for a
\* TLS trust failure, "fail" for another error), the trust policy of the
\* agent a request went through ("none" for a step that sends nothing), and
\* the response or the returned data
Step(step, outcome, agent, resp) ==
  [step |-> step, outcome |-> outcome, agent |-> agent, resp |-> resp]

\* faulty variant: a failed init GET is always retried with relaxed trust
AfterInitFailure_AlwaysRetry(isCertError, allow) == "retry"

\* faulty variant: a failed init GET is swallowed
AfterInitFailure_Continue(isCertError, allow) == "continue"

\* the catch of the init GET: one retry with a permissive agent when the
\* error is a certificate error and ALLOW_INSECURE=1, else the error is rethrown
AfterInitFailure(isCertError, allow) == IF isCertError /\ allow THEN "retry" ELSE "throw"

\* resultsResp.headers['content-type'] includes 'application/json'
IsJsonType(type) == type # <<>> /\ includes(type, <<"a","p","p","l","i","c","a","t","i","o","n","/","j","s","o","n">>)

\* faulty variant: every response is taken for the navigation payload
IsNavPayload_Always(resp) == TRUE

\* resultsResp.data && resultsResp.data.data && resultsResp.data.data.cities_list
IsNavPayload(resp) ==
  /\ JTruthy(resp.data)
  /\ JTruthy(Get(resp.data, <<"d","a","t","a">>))
  /\ JTruthy(Get(Get(resp.data, <<"d","a","t","a">>), <<"c","i","t","i","e","s","_","l","i","s","t">>))

\* faulty variant: the wait grows by a second per attempt
Backoff_Linear(n) == 1000 * n

\* const backoff = 1000 * Math.pow(2, attempt)
Backoff(n) ==
  LET RECURSIVE Pow2(_)
      Pow2(k) == IF k = 0 THEN 1 ELSE 2 * Pow2(k - 1)
  IN  1000 * Pow2(n)

\* faulty variant: every row of the file is taken
Ingest_KeepAll(file, testLimit) ==
  [i \in 1..Len(file) |-> [County |-> file[i].County, Name |-> file[i].Name]]

\* the 'data' handler of the CSV stream, row after row: a row without county
\* or name is skipped, the others are normalised to County and Name and
\* pushed while TEST_LIMIT is unset or results.length is below it
RECURSIVE Ingest(_, _)
Ingest(file, testLimit) ==
  IF file = <<>> THEN <<>>
  ELSE LET before == Ingest(SubSeq(file, 1, Len(file) - 1), testLimit)
           row == file[Len(file)]
           rowCounty == IF Truthy(row.County) THEN row.County ELSE row.county
           name == IF Truthy(row.Name) THEN row.Name ELSE row.case_style
       IN  IF ~Truthy(rowCounty) \/ ~Truthy(name) THEN before
           ELSE IF testLimit # -1 /\ Len(before) >= testLimit THEN before
           ELSE Append(before, [County |-> rowCounty, Name |-> name])

\* the module is loaded: the agent verifies certificates unless
\* NODE_TLS_REJECT_UNAUTHORIZED is '0'; COOKIES is not set, so the cookie
\* store is empty; processCSV has not read the file yet.  The file holds the
\* two rows of CsvRows, alone or between rows that miss county or name and
\* under the other two column names
InitTf ==
  /\ allowInsecure \in BOOLEAN
  /\ client \in {"strict", "permissive"}
  /\ csvFile \in
       LET row(c1, c2, n1, n2) == [County |-> c1, county |-> c2, Name |-> n1, case_style |-> n2]
       IN  { << row(CsvRows[1].County, <<>>, CsvRows[1].Name, <<>>),
                row(CsvRows[2].County, <<>>, CsvRows[2].Name, <<>>) >>,
             << row(<<>>, <<>>, <<"C","y"," ","O","r","r">>, <<>>),
                row(<<>>, CsvRows[1].County, <<>>, CsvRows[1].Name),
                row(CsvRows[2].County, <<>>, <<>>, <<>>),
                row(CsvRows[2].County, <<>>, CsvRows[2].Name, <<>>) >> }
  /\ envTestLimit \in {-1, 0, 1}
  /\ pcsResults = <<>>
  /\ cookieStore = <<>>
  /\ lastEvent = "none"
  /\ rowIdx = 1
  /\ enrichedResults = <<>>
  /\ attempt = 0
  /\ calls = 0
  /\ waits = <<>>
  /\ tfPc = "ingest"
  /\ tfLog = <<>>
  /\ resultsResp = NoResp
  /\ IdleOld /\ IdleBut("tf")

\* processCSV reads the file; the loop over `results` starts
PcsIngest ==
  /\ tfPc = "ingest"
  /\ pcsResults' = Ingest(csvFile, envTestLimit)
  /\ tfPc' = IF pcsResults' = <<>> THEN "end" ELSE "init"
  /\ UNCHANGED <<allowInsecure, client, rowIdx, enrichedResults, attempt, calls, waits, tfLog,
                 resultsResp, csvFile, envTestLimit, cookieStore, lastEvent>>
  /\ UNCHANGED outsideTf

\* a call of getTexasFileData starts (the first for the row when attempt is
\* 0): step 1, the init GET and its catch up to the retry or the rethrow
TfInitGet ==
  /\ tfPc = "init"
  /\ \E outcome \in {"ok", "fail"} \cup (IF client = "strict" THEN {"cert"} ELSE {}) :
       LET sent == <<Step("init", outcome, client, NoResp)>>
           then == AfterInitFailure(outcome = "cert", allowInsecure)
       IN  /\ tfPc' = IF outcome = "ok" THEN "tokens"
                      ELSE IF then = "retry" THEN "initRetry"
                      ELSE IF then = "throw" THEN "thrown"
                      ELSE "tokens"
           /\ tfLog' = IF tfPc' = "thrown"
                       THEN Append(sent, Step("throw", "fail", "none", NoResp))
                       ELSE sent
  /\ calls' = IF attempt = 0 THEN 1 ELSE calls + 1
  /\ waits' = IF attempt = 0 THEN <<>> ELSE waits
  /\ resultsResp' = NoResp
  /\ lastEvent' = "request"
  /\ UNCHANGED <<allowInsecure, client, rowIdx, enrichedResults, attempt, csvFile,
                 envTestLimit, pcsResults, cookieStore>>
  /\ UNCHANGED outsideTf

\* the retry of the init GET: the global client is swapped for one with a
\* permissive agent, and a second failure is rethrown
TfInitRetry ==
  /\ tfPc = "initRetry"
  /\ client' = "permissive"
  /\ \E outcome \in {"ok", "fail"} :
       LET sent == Append(tfLog, Step("initRetry", outcome, "permissive", NoResp))
       IN  /\ tfPc' = IF outcome = "ok" THEN "tokens" ELSE "thrown"
           /\ tfLog' = IF outcome = "ok" THEN sent
                       ELSE Append(sent, Step("throw", "fail", "none", NoResp))
  /\ lastEvent' = "request"
  /\ UNCHANGED <<allowInsecure, rowIdx, enrichedResults, attempt, calls, waits, resultsResp,
                 csvFile, envTestLimit, pcsResults, cookieStore>>
  /\ UNCHANGED outsideTf

\* after a pause of 500 ms searchId and csrfToken are looked up in the init
\* page; nothing is sent and every error is swallowed
TfTokens ==
  /\ tfPc = "tokens"
  /\ tfLog' = Append(tfLog, Step("tokens", "ok", "none", NoResp))
  /\ tfPc' = "suggest"
  /\ lastEvent' = "pause"
  /\ UNCHANGED <<allowInsecure, client, rowIdx, enrichedResults, attempt, calls, waits,
                 resultsResp, csvFile, envTestLimit, pcsResults, cookieStore>>
  /\ UNCHANGED outsideTf

\* step 2, the GET of fetch-name-suggestions: a failure is swallowed
TfSuggestGet ==
  /\ tfPc = "suggest"
  /\ \E outcome \in {"ok", "fail"} :
       /\ tfLog' = Append(tfLog, Step("suggest", outcome, client, NoResp))
       /\ lastEvent' = IF outcome = "ok" THEN "pause" ELSE "request"
  /\ tfPc' = "results"
  /\ UNCHANGED <<allowInsecure, client, rowIdx, enrichedResults, attempt, calls, waits,
                 resultsResp, csvFile, envTestLimit, pcsResults, cookieStore>>
  /\ UNCHANGED outsideTf

\* step 3, the results GET: a failed request is rethrown; for a response
\* whose content-type is not JSON a snippet is logged; the navigation
\* payload leads to the retry, every other response to the return
TfResultsGet ==
  /\ tfPc = "results"
  /\ \/ /\ tfLog' = tfLog \o << Step("results", "fail", client, NoResp),
                                Step("throw", "fail", "none", NoResp) >>
        /\ tfPc' = "thrown"
        /\ UNCHANGED resultsResp
     \/ \E resp \in ResultsAnswers :
          /\ tfLog' = Append(tfLog, Step("results", "ok", client, resp))
                      \o (IF IsJsonType(resp.type) THEN <<>>
                          ELSE <<Step("snippet", "ok", "none", resp)>>)
          /\ resultsResp' = resp
          /\ tfPc' = IF IsNavPayload(resp) THEN "navRetry" ELSE "return"
  /\ cookieStore' = IF Truthy(cookieStore) THEN cookieStore ELSE trim(pcsResults[rowIdx].Name)
  /\ lastEvent' = "request"
  /\ UNCHANGED <<allowInsecure, client, rowIdx, enrichedResults, attempt, calls, waits,
                 csvFile, envTestLimit, pcsResults>>
  /\ UNCHANGED outsideTf

\* the one retry of the results GET: its response replaces resultsResp, its
\* failure is swallowed
TfNavRetry ==
  /\ tfPc = "navRetry"
  /\ \/ /\ tfLog' = Append(tfLog, Step("navRetry", "fail", client, NoResp))
        /\ UNCHANGED resultsResp
     \/ \E resp \in ResultsAnswers :
          /\ tfLog' = Append(tfLog, Step("navRetry", "ok", client, resp))
          /\ resultsResp' = resp
  /\ tfPc' = "return"
  /\ lastEvent' = "request"
  /\ UNCHANGED <<allowInsecure, client, rowIdx, enrichedResults, attempt, calls, waits,
                 csvFile, envTestLimit, pcsResults, cookieStore>>
  /\ UNCHANGED outsideTf

\* getTexasFileData returns resultsResp.data; processCSV pushes the row with
\* the summary of extractLienInfo, or with empty lien fields when the data
\* is falsy, waits REQUEST_DELAY_MS and goes to the next row
PcsEnrich ==
  /\ tfPc = "return"
  /\ tfLog' = Append(tfLog, Step("return", "ok", "none", resultsResp))
  /\ IF JTruthy(resultsResp.data)
     THEN \E info \in {extractLienInfo(resultsResp.data, pcsResults[rowIdx].Name).info} :
            enrichedResults' =
              Append(enrichedResults,
                     [ row |-> rowIdx, lien_present |-> info.lien_present,
                       lien_types |-> info.lien_types, lien_count |-> info.lien_count,
                       last_lien_date |-> info.last_lien_date,
                       matching_doc_urls |-> info.matching_doc_urls ])
     ELSE enrichedResults' =
            Append(enrichedResults,
                   [ row |-> rowIdx, lien_types |-> <<>>, last_lien_date |-> <<>>,
                     matching_doc_urls |-> <<>> ])
  /\ rowIdx' = rowIdx + 1
  /\ attempt' = 0
  /\ tfPc' = IF rowIdx = Len(pcsResults) THEN "end" ELSE "init"
  /\ lastEvent' = "delay"
  /\ UNCHANGED <<allowInsecure, client, calls, waits, resultsResp, csvFile, envTestLimit,
                 pcsResults, cookieStore>>
  /\ UNCHANGED outsideTf

\* the catch of the retry wrapper: the call is repeated after the backoff
\* while attempt <= maxRetries; after that the outer catch pushes the row
\* with empty lien fields and the error, and the loop goes to the next row
PcsCatch ==
  /\ tfPc = "thrown"
  /\ IF attempt + 1 > maxRetries
     THEN /\ enrichedResults' =
               Append(enrichedResults,
                      [ row |-> rowIdx, lien_types |-> <<>>, last_lien_date |-> <<>>,
                        matching_doc_urls |-> <<>>, error |-> "message" ])
          /\ rowIdx' = rowIdx + 1
          /\ attempt' = 0
          /\ tfPc' = IF rowIdx = Len(pcsResults) THEN "end" ELSE "init"
          /\ UNCHANGED <<waits, lastEvent>>
     ELSE /\ attempt' = attempt + 1
          /\ waits' = Append(waits, Backoff(attempt + 1))
          /\ tfPc' = "init"
          /\ lastEvent' = "backoff"
          /\ UNCHANGED <<rowIdx, enrichedResults>>
  /\ UNCHANGED <<allowInsecure, client, calls, tfLog, resultsResp, csvFile, envTestLimit,
                 pcsResults, cookieStore>>
  /\ UNCHANGED outsideTf

SpecTf ==
  InitTf /\ [][ PcsIngest \/ TfInitGet \/ TfInitRetry \/ TfTokens \/ TfSuggestGet \/ TfResultsGet
                \/ TfNavRetry \/ PcsEnrich \/ PcsCatch ]_vars


(***************************************************************************)
(* Claims about getTexasFileData and the retry wrapper of processCSV.      *)
(* tfLog is the log of the current (or last) call of getTexasFileData.     *)
(***************************************************************************)
\* the place of a step in the order of a call
StepRank(step) ==
  CASE step = "init" -> 1
    [] step = "initRetry" -> 2
    [] step = "tokens" -> 3
    [] step = "suggest" -> 4
    [] step = "results" -> 5
    [] step = "snippet" -> 6
    [] step = "navRetry" -> 7
    [] step = "return" -> 8
    [] step = "throw" -> 9

\* the steps of the log, in order
StepsOf(log) == [i \in 1..Len(log) |-> log[i].step]

\* the positions of a step in the log
Positions(log, step) == {i \in 1..Len(log) : log[i].step = step}

\* C16: in one call of getTexasFileData the steps occur in the order init
\* GET, token extraction, suggestion GET, results GET, optional retry for
\* the navigation payload, return; no step is entered again after a later
\* one, and the results GET is only issued after an init GET that succeeded.
C16_StepOrder ==
  /\ tfLog # <<>> => tfLog[1].step = "init"
  /\ \A i, j \in 1..Len(tfLog) :
       i < j => StepRank(tfLog[i].step) < StepRank(tfLog[j].step)
  /\ \A j \in Positions(tfLog, "results") :
       \E i \in 1..(j - 1) : /\ tfLog[i].step \in {"init", "initRetry"}
                             /\ tfLog[i].outcome = "ok"
  /\ \A j \in Positions(tfLog, "return") :
       j > 1 /\ tfLog[j - 1].step \in {"results", "snippet", "navRetry"}

\* a call went through every step, the retry for the navigation payload
\* included
C16_Witness ==
  /\ StepsOf(tfLog) = <<"init", "tokens", "suggest", "results", "navRetry", "return">>
  /\ tfLog[1].outcome = "ok"

\* what C17 says of a trust failure of the init GET: fatal without
\* ALLOW_INSECURE=1, one retry with relaxed trust with it
TrustFailureHandled ==
  /\ \A i \in Positions(tfLog, "init") :
       tfLog[i].outcome = "cert" =>
         IF i = Len(tfLog)
         THEN allowInsecure /\ tfPc = "initRetry"
         ELSE IF allowInsecure
              THEN /\ tfLog[i + 1].step = "initRetry"
                   /\ tfLog[i + 1].agent = "permissive"
              ELSE tfLog[i + 1].step = "throw"
  /\ \A j \in Positions(tfLog, "initRetry") :
       /\ allowInsecure
       /\ j > 1 /\ tfLog[j - 1].step = "init" /\ tfLog[j - 1].outcome = "cert"
  /\ Cardinality(Positions(tfLog, "initRetry")) <= 1
  /\ \A j \in Positions(tfLog, "initRetry") :
       tfLog[j].outcome = "fail" => j < Len(tfLog) /\ tfLog[j + 1].step = "throw"

\* a request of the call went through an agent that does not verify
\* certificates
SentPermissive == \E i \in 1..Len(tfLog) : tfLog[i].agent = "permissive"

\* C17 as stated: a TLS trust failure of the init GET is fatal unless
\* ALLOW_INSECURE=1 is set, and then exactly one retry with relaxed trust is
\* made; without the flag no request is ever sent through a permissive agent.
C17_NoPermissiveWithoutFlag ==
  /\ TrustFailureHandled
  /\ ~allowInsecure => ~SentPermissive

\* C17, amended: a TLS trust failure of the init GET is fatal unless
\* ALLOW_INSECURE=1 is set, and then exactly one retry with relaxed trust is
\* made; without the flag no request is sent through a permissive agent
\* unless the agent was built permissive (NODE_TLS_REJECT_UNAUTHORIZED=0).
C17_TrustFailure ==
  /\ TrustFailureHandled
  /\ (~allowInsecure /\ client = "strict") => ~SentPermissive

\* with the flag, a trust failure of the init GET was retried with relaxed
\* trust and the results GET then went through the permissive agent
C17_Witness ==
  /\ allowInsecure
  /\ Len(tfLog) >= 5
  /\ tfLog[1].step = "init" /\ tfLog[1].outcome = "cert" /\ tfLog[1].agent = "strict"
  /\ tfLog[2].step = "initRetry" /\ tfLog[2].outcome = "ok"
  /\ tfLog[5].step = "results" /\ tfLog[5].agent = "permissive"

\* C18: when the results GET is answered with a content-type that is not
\* JSON, a snippet of the response is logged and the step counts as failed:
\* the record is not enriched from that body.
C18_NonJsonIsFailure ==
  \A i \in Positions(tfLog, "results") :
    (tfLog[i].outcome = "ok" /\ ~IsJsonType(tfLog[i].resp.type)) =>
      /\ i < Len(tfLog) /\ tfLog[i + 1].step = "snippet"
      /\ tfLog[Len(tfLog)].step = "return" =>
           "lien_present" \notin DOMAIN enrichedResults[Len(enrichedResults)]

\* the response carries the navigation key data.cities_list
HasCitiesList(resp) ==
  /\ resp.data.t = "obj"
  /\ \E i \in 1..Len(resp.data.v) :
       /\ resp.data.v[i][1] = <<"d","a","t","a">>
       /\ resp.data.v[i][2].t = "obj"
       /\ \E k \in 1..Len(resp.data.v[i][2].v) :
            /\ resp.data.v[i][2].v[k][1] = <<"c","i","t","i","e","s","_","l","i","s","t">>
            /\ resp.data.v[i][2].v[k][2].t \in {"arr", "obj"}

\* C19: in one call the results GET is retried at most once, and only when
\* the first results response carries data.cities_list; the response of a
\* retry that succeeded replaces the first one, a retry that failed is
\* swallowed and the first response is returned.
C19_NavRetryOnce ==
  /\ Cardinality(Positions(tfLog, "navRetry")) <= 1
  /\ \A j \in Positions(tfLog, "navRetry") :
       /\ j > 1
       /\ tfLog[j - 1].step = "results" /\ tfLog[j - 1].outcome = "ok"
       /\ HasCitiesList(tfLog[j - 1].resp)
  /\ \A k \in Positions(tfLog, "return") :
       \E i \in Positions(tfLog, "results") :
         tfLog[k].resp =
           IF \E j \in Positions(tfLog, "navRetry") : tfLog[j].outcome = "ok"
           THEN tfLog[CHOOSE j \in Positions(tfLog, "navRetry") : TRUE].resp
           ELSE tfLog[i].resp

\* the retry for the navigation payload failed and the call returned the
\* first response
C19_Witness ==
  /\ Len(tfLog) = 6
  /\ tfLog[4].step = "results" /\ HasCitiesList(tfLog[4].resp)
  /\ tfLog[5].step = "navRetry" /\ tfLog[5].outcome = "fail"
  /\ tfLog[6].step = "return" /\ tfLog[6].resp = tfLog[4].resp

\* the record pushed last
LastRecord == enrichedResults[Len(enrichedResults)]

\* processCSV is between two rows, or past the last one
BetweenRows == attempt = 0 /\ tfPc \in {"init", "end"} /\ enrichedResults # <<>>

\* C20: getTexasFileData is called at most 3 times for a record, with waits
\* of 2000 ms and then 4000 ms between the calls; after the last failure the
\* record is pushed with an error field and empty lien fields, and
\* processCSV goes on with the next record.
C20_BoundedRetry ==
  /\ calls <= 3
  /\ attempt <= 2
  /\ waits = SubSeq(<<2000, 4000>>, 1, Len(waits))
  /\ Len(waits) = (IF tfPc \in {"init", "end"} /\ attempt = 0 THEN Len(waits) ELSE attempt)
  /\ Len(enrichedResults) = rowIdx - 1
  /\ \A i \in 1..Len(enrichedResults) :
       /\ enrichedResults[i].row = i
       /\ "error" \in DOMAIN enrichedResults[i] =>
            /\ enrichedResults[i].lien_types = <<>>
            /\ enrichedResults[i].last_lien_date = <<>>
            /\ enrichedResults[i].matching_doc_urls = <<>>
            /\ "lien_present" \notin DOMAIN enrichedResults[i]
  /\ BetweenRows =>
       ("error" \in DOMAIN LastRecord <=> tfLog[Len(tfLog)].step = "throw")
  /\ (BetweenRows /\ "error" \in DOMAIN LastRecord) =>
       calls = 3 /\ waits = <<2000, 4000>>

\* the first record was given up after the third call failed, and the
\* second record was processed after it
C20_Witness ==
  /\ Len(enrichedResults) = 2
  /\ "error" \in DOMAIN enrichedResults[1]
  /\ "lien_present" \in DOMAIN enrichedResults[2]
  /\ enrichedResults[2].lien_present


(***************************************************************************)
(* Claims about the cookie store, the ingestion and the pacing of          *)
(* processCSV in the cookie-jar script.                                    *)
(***************************************************************************)
\* C26: the name1 cookie sent with the results GET of a record is that
\* record's own search name, whatever was searched before it in the run.
C26_CookieFollowsRecord ==
  (tfPc \in {"navRetry", "return", "thrown"} /\ Positions(tfLog, "results") # {}) =>
    cookieStore = trim(pcsResults[rowIdx].Name)

\* the row of the file has a county and a name, under either column name
HasCountyAndName(r) ==
  (r.County # <<>> \/ r.county # <<>>) /\ (r.Name # <<>> \/ r.case_style # <<>>)

\* the rows of the file that are to be processed: those with county and
\* name, the first TEST_LIMIT of them when a limit is set
RowsToProcess ==
  LET kept == SelectSeq(csvFile, HasCountyAndName)
  IN  IF envTestLimit = -1 \/ envTestLimit >= Len(kept) THEN kept
      ELSE SubSeq(kept, 1, envTestLimit)

\* C28: every row of the file that has county and name and lies within
\* TEST_LIMIT yields exactly one row of enrichedResults, in the order of the
\* file, whether its fetch succeeded, returned nothing or failed after all
\* retries; a row without county or name yields none.
C28_OneRowPerIngestedRow ==
  tfPc # "ingest" =>
    /\ Len(pcsResults) = Len(RowsToProcess)
    /\ \A i \in 1..Len(pcsResults) :
         /\ pcsResults[i].County \in {RowsToProcess[i].County, RowsToProcess[i].county} \ {<<>>}
         /\ pcsResults[i].Name \in {RowsToProcess[i].Name, RowsToProcess[i].case_style} \ {<<>>}
    /\ Len(enrichedResults) = rowIdx - 1
    /\ Len(enrichedResults) <= Len(RowsToProcess)
    /\ \A i \in 1..Len(enrichedResults) : enrichedResults[i].row = i
    /\ tfPc = "end" => Len(enrichedResults) = Len(RowsToProcess)

\* a file of four rows, two of them without county or name, was processed:
\* the first kept row failed after its retries, the second returned nothing
C28_Witness ==
  /\ tfPc = "end"
  /\ Len(csvFile) = 4
  /\ Len(enrichedResults) = 2
  /\ "error" \in DOMAIN enrichedResults[1]
  /\ DOMAIN enrichedResults[2] = {"row", "lien_types", "last_lien_date", "matching_doc_urls"}

\* C29: the pause of REQUEST_DELAY_MS lies between the last request of a
\* record and the first request of the next one, also when the record ended
\* in an error after its retries.
C29_DelayBetweenRecords ==
  (tfPc = "init" /\ attempt = 0 /\ rowIdx > 1) => lastEvent = "delay"


(***************************************************************************)
(* SpecMain: a whole run of main of lgb-scrape-NoMetro.js, county after    *)
(* county and listing after listing, up to the exit of the process.        *)
(***************************************************************************)
\* what the server answers in a run; ok is FALSE where the function throws
\* or, for the map, where it gives up: the county list, the listings of a
\* county (uid 1 and 2 are cancelled, 3 costs more than 5000, 4 costs 5000,
\* 6 has no sale notes), the uid -> address map, and the details of a
\* listing ({} after a failed request)
MainAnswers ==
  LET listing(u, s, b, a, n) ==
        [uid |-> u, status |-> s, minimum_bid |-> b, prop_address_one |-> a,
         prop_city |-> <<>>, prop_state |-> <<>>, prop_zipcode |-> <<>>, sale_notes |-> n]
      l1 == listing(1, <<"C","a","n","c","e","l","l","e","d">>, <<"$","1","0","0">>, <<"5"," ","E","L","M">>, <<"v","a","c","a","n","t"," ","l","o","t">>)
      l2 == listing(2, <<"S","A","L","E"," ","C","A","N","C","E","L","E","D">>, <<>>, <<>>, <<"l","o","t">>)
      l3 == listing(3, <<"A","c","t","i","v","e">>, <<"$","5",",","0","0","0",".","0","1">>, <<>>, <<"v","a","c","a","n","t"," ","l","o","t">>)
      l4 == listing(4, <<>>, <<"$","5",",","0","0","0">>, <<>>, <<"2"," ","a","c","r","e","s">>)
      l5 == listing(5, <<"A","c","t","i","v","e">>, <<"$","1","0","0">>, <<"5"," ","E","L","M">>, <<"v","a","c","a","n","t"," ","l","o","t">>)
      l6 == listing(6, <<"A","c","t","i","v","e">>, <<"a","b","c">>, <<>>, <<>>)
      detail(a, c, l) ==
        [prop_address_one |-> a, prop_city |-> c, prop_state |-> <<>>, prop_zipcode |-> <<>>,
         legal_description |-> l]
  IN  [ counties |-> { [ok |-> FALSE, list |-> <<>>], [ok |-> TRUE, list |-> <<>>],
                         [ok |-> TRUE, list |-> << <<"B","E","L","L"," ","C","O","U","N","T","Y">>, <<"H","A","Y","S"," ","C","O","U","N","T","Y">> >>] },
        props |-> { [ok |-> FALSE, list |-> <<>>] } \cup
                  { [ok |-> TRUE, list |-> l] : l \in { <<>>, <<l1, l5, l3>>, <<l6, l5>>, <<l4, l2, l6>> } },
        maps |-> { [ok |-> TRUE, map |-> <<>>],
                   [ok |-> TRUE, map |-> (UidStr(5) :> <<"9"," ","O","A","K",","," ","T","X">>) @@ (UidStr(6) :> <<>>)],
                   [ok |-> FALSE, map |-> (UidStr(6) :> <<"7"," ","A","S","H",","," ","T","X">>)] },
        details |-> { detail(<<>>, <<>>, <<>>), detail(<<>>, <<"W","A","C","O">>, <<"L","o","t"," ","5">>) } ]

\* faulty variant: the status is searched as it is, not lower-cased
SkipListing_CaseSensitive(row) ==
  \/ includes(row.status, <<"c","a","n","c","e","l">>)
  \/ LET minBid == NumericBid(row.minimum_bid)
     IN  minBid[1] > 5000 * 10^minBid[2]

\* lines 240-249: a listing is skipped when its status holds 'cancel' or
\* its numeric minimum bid is above 5000
SkipListing(row) ==
  \/ (Truthy(row.status) /\ includes(toLowerCase(row.status), <<"c","a","n","c","e","l">>))
  \/ LET minBid == NumericBid(row.minimum_bid)
     IN  minBid[1] > 5000 * 10^minBid[2]

\* faulty variant: the run stops only above the limit
LimitReached_Above(testLimit, len) == testLimit # 0 /\ len > testLimit

\* faulty variant: the run stops after every county
LimitReached_Always(testLimit, len) == TRUE

\* TEST_LIMIT && results.length >= TEST_LIMIT
LimitReached(testLimit, len) == testLimit # 0 /\ len >= testLimit

\* main is called; TEST_LIMIT is 0 when the variable is unset or no number
InitMain ==
  /\ aPc = "start"
  /\ TEST_LIMIT \in 0..2
  /\ counties = <<>>
  /\ ci = 0
  /\ props = <<>>
  /\ pi = 0
  /\ totalAddressSourceCounts = <<>>
  /\ sourced = <<>>
  /\ requests = <<>>
  /\ exitCode = -1
  /\ county = <<>>
  /\ uidMap = <<>>
  /\ p = <<>>
  /\ details = <<>>
  /\ chosenAddress = <<>>
  /\ addressSource = ""
  /\ results = <<>>
  /\ IdleNorm /\ IdleGc /\ IdleVac /\ IdleBut("main")

\* lines 203-222: the latest sale date is looked up (its failure is
\* swallowed), the counties are fetched; main rejects when getAllCounties
\* throws and returns when the list is empty
MainStart ==
  /\ aPc = "start"
  /\ \E answer \in MainAnswers.counties :
       /\ requests' = << [kind |-> "saleDate", county |-> <<>>, uid |-> 0, ok |-> TRUE],
                         [kind |-> "counties", county |-> <<>>, uid |-> 0, ok |-> answer.ok] >>
       /\ IF ~answer.ok THEN aPc' = "rejected" /\ UNCHANGED <<counties, ci>>
          ELSE IF answer.list = <<>> THEN aPc' = "returned" /\ UNCHANGED <<counties, ci>>
          ELSE aPc' = "county" /\ counties' = answer.list /\ ci' = 1
  /\ totalAddressSourceCounts' = [api_list |-> 0, detail |-> 0, listing |-> 0, approximated |-> 0]
  /\ UNCHANGED <<props, pi, TEST_LIMIT, sourced, exitCode, county, uidMap, p, details,
                 chosenAddress, addressSource, results>>
  /\ UNCHANGED <<varsNorm, varsGc, varsVac, varsLien, varsSort, varsPg, varsTf, varsEnr>>

\* lines 225-236 and 326-330: the address map of the county is built (a
\* failure leaves the part built so far), its listings are fetched; when
\* getProperties throws, the catch skips the county
MainCounty ==
  /\ aPc = "county"
  /\ county' = counties[ci]
  /\ \E built \in MainAnswers.maps, listed \in MainAnswers.props :
       /\ uidMap' = built.map
       /\ requests' = requests \o
            << [kind |-> "map", county |-> counties[ci], uid |-> 0, ok |-> built.ok],
               [kind |-> "listings", county |-> counties[ci], uid |-> 0, ok |-> listed.ok] >>
       /\ IF ~listed.ok
          THEN /\ UNCHANGED <<props, pi, sourced>>
               /\ IF LimitReached(TEST_LIMIT, Len(results)) \/ ci = Len(counties)
                  THEN aPc' = "finish" /\ ci' = ci
                  ELSE aPc' = "county" /\ ci' = ci + 1
          ELSE /\ props' = listed.list
               /\ pi' = 1
               /\ sourced' = [api_list |-> 0, detail |-> 0, listing |-> 0, approximated |-> 0]
               /\ aPc' = IF listed.list = <<>> THEN "countyEnd" ELSE "listing"
               /\ ci' = ci
  /\ UNCHANGED <<counties, TEST_LIMIT, totalAddressSourceCounts, exitCode, p, details,
                 chosenAddress, addressSource, results>>
  /\ UNCHANGED <<varsNorm, varsGc, varsVac, varsLien, varsSort, varsPg, varsTf, varsEnr>>

\* lines 239-317: one turn of the loop over props
MainListing ==
  /\ aPc = "listing"
  /\ p' = props[pi]
  /\ IF SkipListing(props[pi])
     THEN /\ aPc' = IF pi = Len(props) THEN "countyEnd" ELSE "listing"
          /\ pi' = IF pi = Len(props) THEN pi ELSE pi + 1
          /\ UNCHANGED <<requests, details, chosenAddress, addressSource, sourced, results>>
     ELSE \E det \in MainAnswers.details :
            \E addr \in {ResolveAddress(uidMap, props[pi], det, county)},
               vacancyMatch \in {detectVacancy(det.legal_description, props[pi].sale_notes)} :
              /\ requests' = Append(requests, [kind |-> "details", county |-> county,
                                               uid |-> props[pi].uid, ok |-> TRUE])
              /\ details' = det
              /\ chosenAddress' = addr.address
              /\ addressSource' = addr.source
              /\ sourced' = [sourced EXCEPT ![addr.source] = @ + 1]
              /\ results' =
                   IF vacancyMatch = NoMatch THEN results
                   ELSE Append(results,
                               [uid |-> props[pi].uid, county |-> county,
                                address |-> addr.address, address_source |-> addr.source,
                                min_bid |-> props[pi].minimum_bid, status |-> props[pi].status,
                                legal_description |-> det.legal_description,
                                sale_notes |-> props[pi].sale_notes,
                                vacant_keyword |-> vacancyMatch.match,
                                vacant_source |-> vacancyMatch.source])
              /\ LET done == \/ pi = Len(props)
                             \/ (vacancyMatch # NoMatch /\ LimitReached(TEST_LIMIT, Len(results')))
                 IN  /\ aPc' = IF done THEN "countyEnd" ELSE "listing"
                     /\ pi' = IF done THEN pi ELSE pi + 1
  /\ UNCHANGED <<counties, ci, props, TEST_LIMIT, totalAddressSourceCounts, exitCode, county,
                 uidMap>>
  /\ UNCHANGED <<varsNorm, varsGc, varsVac, varsLien, varsSort, varsPg, varsTf, varsEnr>>

\* lines 319-330: the counts of the county are added to the totals, and the
\* loop over the counties goes on unless TEST_LIMIT is reached
MainCountyEnd ==
  /\ aPc = "countyEnd"
  /\ totalAddressSourceCounts' =
       [s \in DOMAIN totalAddressSourceCounts |-> totalAddressSourceCounts[s] + sourced[s]]
  /\ IF LimitReached(TEST_LIMIT, Len(results)) \/ ci = Len(counties)
     THEN aPc' = "finish" /\ ci' = ci
     ELSE aPc' = "county" /\ ci' = ci + 1
  /\ UNCHANGED <<counties, props, pi, TEST_LIMIT, sourced, requests, exitCode, county, uidMap,
                 p, details, chosenAddress, addressSource, results>>
  /\ UNCHANGED <<varsNorm, varsGc, varsVac, varsLien, varsSort, varsPg, varsTf, varsEnr>>

\* lines 333-350: main returns when nothing was collected; else the records
\* are sorted and written, and main rejects when the file cannot be written
MainFinish ==
  /\ aPc = "finish"
  /\ IF results = <<>>
     THEN aPc' = "returned" /\ UNCHANGED results
     ELSE /\ results' = SortByBid(results)
          /\ aPc' \in {"returned", "rejected"}
  /\ UNCHANGED <<counties, ci, props, pi, TEST_LIMIT, totalAddressSourceCounts, sourced,
                 requests, exitCode, county, uidMap, p, details, chosenAddress, addressSource>>
  /\ UNCHANGED <<varsNorm, varsGc, varsVac, varsLien, varsSort, varsPg, varsTf, varsEnr>>

\* line 353: main().catch(err => console.error('Fatal error:', err)); the
\* handler logs, and the process ends with the event loop empty
MainExit ==
  /\ aPc \in {"returned", "rejected"}
  /\ exitCode = -1
  /\ exitCode' = 0
  /\ UNCHANGED <<aPc, counties, ci, props, pi, TEST_LIMIT, totalAddressSourceCounts, sourced,
                 requests, county, uidMap, p, details, chosenAddress, addressSource, results>>
  /\ UNCHANGED <<varsNorm, varsGc, varsVac, varsLien, varsSort, varsPg, varsTf, varsEnr>>

SpecMain ==
  InitMain /\ [][ MainStart \/ MainCounty \/ MainListing \/ MainCountyEnd \/ MainFinish
                  \/ MainExit ]_vars


(***************************************************************************)
(* Claims about a run of main.                                             *)
(***************************************************************************)
\* the status holds 'cancel' in some letter case
HoldsCancel(status) ==
  \E i \in 1..(Len(status) - 5) :
    /\ status[i] \in {"c", "C"} /\ status[i + 1] \in {"a", "A"} /\ status[i + 2] \in {"n", "N"}
    /\ status[i + 3] \in {"c", "C"} /\ status[i + 4] \in {"e", "E"} /\ status[i + 5] \in {"l", "L"}

\* the bid texts of the listings that stand for more than 5000
Above5000 == { <<"$","5",",","0","0","0",".","0","1">> }

\* C22: a listing whose status holds 'cancel' in any letter case, or whose
\* numeric minimum bid is above 5000, is never added to results, and no
\* detail request is sent for it.
C22_SkipRules ==
  /\ \A i \in 1..Len(results) :
       /\ ~HoldsCancel(results[i].status)
       /\ results[i].min_bid \notin Above5000
       /\ results[i].uid \notin {1, 2, 3}
  /\ \A i \in 1..Len(requests) :
       requests[i].kind = "details" => requests[i].uid \notin {1, 2, 3}

\* a county with a cancelled listing, a listing that passes and one above
\* 5000 was walked to its end: the one detail request of the run is for
\* the listing that passed, and it alone was added
C22_Witness ==
  /\ aPc = "countyEnd"
  /\ ci = 1
  /\ [i \in 1..Len(props) |-> props[i].uid] = <<1, 5, 3>>
  /\ pi = 3
  /\ {requests[i].uid : i \in {k \in 1..Len(requests) : requests[k].kind = "details"}} = {5}
  /\ Len(results) = 1 /\ results[1].uid = 5

\* C23: with TEST_LIMIT a positive number n, results never holds more than
\* n records, and once it holds n no further listing and no further county
\* is processed and no further request is sent.
C23_TestLimitCap ==
  [][ TEST_LIMIT > 0 =>
        /\ Len(results') <= TEST_LIMIT
        /\ Len(results) >= TEST_LIMIT =>
             /\ requests' = requests
             /\ Len(results') = Len(results)
             /\ aPc' \notin {"county", "listing"} ]_vars

\* the run ended with the one record TEST_LIMIT allows, taken from the
\* first listing of the first county, while a second listing and a second
\* county were left
C23_Witness ==
  /\ TEST_LIMIT = 1
  /\ aPc = "returned"
  /\ Len(results) = 1
  /\ ci = 1 /\ Len(counties) = 2
  /\ pi = 1 /\ Len(props) = 2

C25_TotalsMatchRecords ==
  (aPc = "returned" /\ counties # <<>>) =>
    \A s \in DOMAIN totalAddressSourceCounts :
      totalAddressSourceCounts[s] =
        Cardinality({i \in 1..Len(results) : results[i].address_source = s})

\* the listings request of the county was answered
ListingsFetched(c) ==
  \E i \in 1..Len(requests) :
    requests[i].kind = "listings" /\ requests[i].county = c /\ requests[i].ok

\* C30: when getProperties throws for a county, no record of the county is
\* added, the records and totals collected so far stay as they are, and
\* the run goes on with the next county; when the address map of a county
\* cannot be built to its end, the county is processed with the part that
\* was built.
C30_CountyIsolation ==
  /\ [](\A i \in 1..Len(results) : ListingsFetched(results[i].county))
  /\ [][ aPc = "county" =>
           LET mapRequest == requests'[Len(requests') - 1]
               listRequest == requests'[Len(requests')]
           IN  /\ mapRequest.kind = "map" /\ listRequest.kind = "listings"
               /\ mapRequest.county = counties[ci] /\ listRequest.county = counties[ci]
               /\ ~listRequest.ok =>
                    /\ results' = results
                    /\ totalAddressSourceCounts' = totalAddressSourceCounts
                    /\ IF ci < Len(counties) THEN aPc' = "county" /\ ci' = ci + 1
                       ELSE aPc' = "finish"
               /\ (~mapRequest.ok /\ listRequest.ok) =>
                    /\ aPc' \in {"listing", "countyEnd"}
                    /\ ci' = ci
                    /\ [ok |-> FALSE, map |-> uidMap'] \in MainAnswers.maps ]_vars

\* the listings of the first county could not be fetched, the run went on
\* to the second one, whose address map was built in part, and a record of
\* the second county carries an address of that part
C30_Witness ==
  /\ aPc = "returned"
  /\ Len(requests) >= 6
  /\ requests[4].kind = "listings" /\ requests[4].county = counties[1] /\ ~requests[4].ok
  /\ requests[5].kind = "map" /\ requests[5].county = counties[2] /\ ~requests[5].ok
  /\ \E i \in 1..Len(results) :
       /\ results[i].county = counties[2]
       /\ results[i].address_source = "api_list"
       /\ results[i].address = <<"7"," ","A","S","H",","," ","T","X">>

(***************************************************************************)
(* texasfile_enrichment.js: getTexasFileData, extractLienInfo, processCSV  *)
(***************************************************************************)
\* the rows of texas-future-sales.csv (the third repeats the first, so its
\* cache key is the same) and the bodies of the results endpoint as
\* transformResponse hands them on: parsed JSON, or {results} built from
\* the table rows of an HTML body
EnrInputs ==
  LET str(s) == J("str", s)
      rec(id, type, date) ==
        J("obj", << <<<<"d","o","c","u","m","e","n","t","_","i","d">>, id>>, <<<<"d","o","c","u","m","e","n","t","_","t","y","p","e">>, str(type)>>,
                    <<<<"d","a","t","e","_","f","i","l","e","d">>, str(date)>> >>)
      res(list) == J("obj", << <<<<"r","e","s","u","l","t","s">>, J("arr", list)>> >>)
  IN  [ rows |->
          << [county |-> <<"B","E","L","L"," ","C","O","U","N","T","Y">>, case_style |-> <<"S","T","A","T","E"," ","V","S"," ","A","N","N"," ","L","E","E">>, cause_number |-> <<"1">>],
             [county |-> <<"H","a","y","s"," ","C","o","u","n","t","y"," ">>, case_style |-> <<"B","o"," ","R","a","y">>, cause_number |-> <<"2">>],
             [county |-> <<"B","E","L","L"," ","C","O","U","N","T","Y">>, case_style |-> <<"S","T","A","T","E"," ","V","S"," ","A","N","N"," ","L","E","E">>, cause_number |-> <<"1">>],
             [county |-> <<"T","R","A","V","I","S">>, case_style |-> <<"C","I","T","Y"," ","V","S"," ","C","Y"," ","O","R","R">>, cause_number |-> <<"3">>] >>,
        answers |->
          { res(<<rec(str(<<"7","7">>), <<"U","c","c"," ","F","i","n","a","n","c","i","n","g">>, <<"2","0","2","3","-","0","5","-","0","1">>)>>),
            res(<<rec(str(<<"7","8">>), <<"W","A","R","R","A","N","T","Y"," ","D","E","E","D">>, <<"2","0","2","2","-","0","1","-","1","0">>),
                  rec(J("undef", <<>>), <<"T","a","x"," ","L","i","e","n"," ","S","t","a","t","e">>, <<"2","0","2","4","-","0","6","-","0","1">>),
                  rec(str(<<"7","9">>), <<"R","e","l","e","a","s","e">>, <<"2","0","2","1","-","1","1","-","3","0">>)>>),
            res(<<>>),
            J("obj", <<>>),
            J("null", <<>>) } ]

\* extractLienInfo of the enrichment script: the summary, or an
\* exception (toISOString of an Invalid Date). Dates are compared as
\* new Date(text); the date part of toISOString is the text itself for an
\* ISO date.
EnrExtractLienInfo(apiResp) ==
  LET hits == Get(Get(Get(Get(Get(apiResp, <<"r","e","s","p","o","n","s","e">>), <<"r","e","s","p","o","n","s","e">>), <<"d","a","t","a">>), <<"h","i","t","s">>), <<"h","i","t","s">>)
      first(source, keys) ==
        LET found == SelectSeq([i \in 1..Len(keys) |-> Get(source, keys[i])], JTruthy)
        IN  IF found = <<>> THEN <<>> ELSE found[1].v
      docType(hit) ==
        toUpperCase(first(Get(hit, <<"_","s","o","u","r","c","e">>), <<<<"t","y","p","e">>, <<"c","o","u","n","t","y","_","t","y","p","e">>, <<"d","o","c","u","m","e","n","t","_","t","y","p","e">>>>))
      matches(hit) == \E k \in 1..Len(LIEN_KEYWORDS) : includes(docType(hit), LIEN_KEYWORDS[k])
      matchingRecords == SelectSeq(hits.v, matches)
      dateStr(hit) == first(Get(hit, <<"_","s","o","u","r","c","e">>), <<<<"d","a","t","e","_","f","i","l","e","d">>, <<"d","a","t","e">>, <<"r","e","c","o","r","d","e","d","_","d","a","t","e">>>>)
      RECURSIVE Last(_, _)
      Last(list, lastLienDate) ==
        IF list = <<>> THEN lastLienDate
        ELSE LET text == dateStr(Head(list))
             IN  Last(Tail(list),
                      IF text # <<>> /\ (lastLienDate = <<>> \/
                                         (DateValue(text) # -1 /\ DateValue(lastLienDate) # -1
                                          /\ DateValue(text) > DateValue(lastLienDate)))
                      THEN text ELSE lastLienDate)
      lastLienDate == Last(matchingRecords, <<>>)
      url(hit) ==
        LET record == Get(hit, <<"_","s","o","u","r","c","e">>)
            name == Get(Get(record, <<"c","o","u","n","t","y">>), <<"n","a","m","e">>)
            countyOf == IF JTruthy(name) THEN toLowerCase(name.v)
                      ELSE IF Get(record, <<"c","o","u","n","t","y">>).t = "str" THEN toLowerCase(Get(record, <<"c","o","u","n","t","y">>).v)
                      ELSE <<>>
        IN  IF JTruthy(Get(record, <<"u","r","l">>)) THEN <<Get(record, <<"u","r","l">>).v>>
            ELSE IF JTruthy(Get(record, <<"d","o","c","u","m","e","n","t","_","i","d">>))
            THEN (IF countyOf = <<>> THEN <<>>
                  ELSE <<<<"h","t","t","p","s",":","/","/","w","w","w",".","t","e","x","a","s","f","i","l","e",".","c","o","m","/","s","e","a","r","c","h","/","t","e","x","a","s","/">> \o countyOf
                         \o <<"/","c","o","u","n","t","y","-","c","l","e","r","k","-","r","e","c","o","r","d","s","/">> \o Get(record, <<"d","o","c","u","m","e","n","t","_","i","d">>).v \o <<"/">>>>)
            ELSE IF JTruthy(Get(record, <<"n","u","m","b","e","r">>))
            THEN <<<<"h","t","t","p","s",":","/","/","w","w","w",".","t","e","x","a","s","f","i","l","e",".","c","o","m","/","d","o","c","u","m","e","n","t","/">> \o Get(record, <<"n","u","m","b","e","r">>).v>>
            ELSE <<>>
      RECURSIVE Urls(_)
      Urls(list) == IF list = <<>> THEN <<>> ELSE url(Head(list)) \o Urls(Tail(list))
  IN  IF ~JTruthy(hits) \/ hits.t # "arr" THEN [threw |-> FALSE, info |-> NoLiens]
      ELSE IF matchingRecords = <<>> THEN [threw |-> FALSE, info |-> NoLiens]
      ELSE IF lastLienDate # <<>> /\ DateValue(lastLienDate) = -1 THEN [threw |-> TRUE, info |-> NoLiens]
      ELSE [ threw |-> FALSE,
             info |-> [ lien_present |-> TRUE,
                        lien_types |-> Dedupe(SelectSeq([i \in 1..Len(matchingRecords) |->
                                                           docType(matchingRecords[i])],
                                                        LAMBDA t : t # <<>>)),
                        lien_count |-> Len(matchingRecords),
                        last_lien_date |-> lastLienDate,
                        matching_doc_urls |-> Dedupe(Urls(matchingRecords)) ] ]

\* processCSV has read the rows; nothing is cached and no row is processed
InitEnr ==
  /\ ePc = "call"
  /\ eIdx = 1
  /\ eLog = <<>>
  /\ eOut = <<>>
  /\ responseCache = <<>>
  /\ IdleOld /\ IdleBut("enr")

\* processCSV calls getTexasFileData for the row, or the 429 handler calls
\* it again: the cache check, then the GET of the search page. A 429 leads
\* to the handler's wait, any other error to return null.
EnrCall ==
  /\ ePc = "call"
  /\ LET row == EnrInputs.rows[eIdx]
         cacheKey == row.county \o <<":">> \o row.case_style \o <<":">> \o row.cause_number
         cached == {i \in 1..Len(responseCache) : responseCache[i][1] = cacheKey}
     IN  IF cached # {}
         THEN /\ eLog' = Append(eLog, responseCache[CHOOSE i \in cached : TRUE][2])
              /\ ePc' = "returned"
         ELSE \E status \in {200, 429, 500} :
                /\ ePc' = CASE status = 200 -> "results"
                            [] status = 429 -> "limited"
                            [] OTHER -> "returned"
                /\ eLog' = IF status = 500 THEN Append(eLog, J("null", <<>>)) ELSE eLog
  /\ UNCHANGED <<eIdx, eOut, responseCache>>
  /\ UNCHANGED <<varsNorm, varsGc, varsAddr, varsVac, varsLien, varsSort, varsPg, varsTf, varsMain>>

\* the GET of the results endpoint and what follows it: no records returns
\* null, records are formatted into the hits structure, cached and returned;
\* a 429 leads to the handler's wait, any other error to return null
EnrResultsGet ==
  /\ ePc = "results"
  /\ LET row == EnrInputs.rows[eIdx]
         cacheKey == row.county \o <<":">> \o row.case_style \o <<":">> \o row.cause_number
         str(s) == J("str", s)
         \* county.replace(/\s*COUNTY\s*$/, '').trim().toLowerCase()
         countyName ==
           toLowerCase(trim(IF endsWith(trim(row.county), <<"C","O","U","N","T","Y">>)
                            THEN SubSeq(trim(row.county), 1, Len(trim(row.county)) - 6)
                            ELSE row.county))
         detail(record) ==
           << <<<<"d","o","c","u","m","e","n","t","_","i","d">>, Get(record, <<"d","o","c","u","m","e","n","t","_","i","d">>)>>,
              <<<<"d","o","c","u","m","e","n","t","_","t","y","p","e">>, Get(record, <<"d","o","c","u","m","e","n","t","_","t","y","p","e">>)>>,
              <<<<"t","y","p","e">>, Get(record, <<"d","o","c","u","m","e","n","t","_","t","y","p","e">>)>>,
              <<<<"d","a","t","e","_","f","i","l","e","d">>, Get(record, <<"d","a","t","e","_","f","i","l","e","d">>)>>,
              <<<<"c","o","u","n","t","y","_","n","a","m","e">>, str(countyName)>>,
              <<<<"u","r","l">>, IF JTruthy(Get(record, <<"d","o","c","u","m","e","n","t","_","i","d">>))
                         THEN str(<<"h","t","t","p","s",":","/","/","w","w","w",".","t","e","x","a","s","f","i","l","e",".","c","o","m","/","s","e","a","r","c","h","/","t","e","x","a","s","/">> \o countyName
                                  \o <<"/","c","o","u","n","t","y","-","c","l","e","r","k","-","r","e","c","o","r","d","s","/">> \o Get(record, <<"d","o","c","u","m","e","n","t","_","i","d">>).v \o <<"/">>)
                         ELSE J("null", <<>>)>> >>
         hit(record) ==
           J("obj", << <<<<"_","s","o","u","r","c","e">>,
                         J("obj", detail(record) \o
                                  << <<<<"c","o","u","n","t","y">>, J("obj", << <<<<"n","a","m","e">>, str(countyName)>> >>)>> >>)>> >>)
         formattedResponse(records) ==
           J("obj", << <<<<"r","e","s","p","o","n","s","e">>, J("obj", << <<<<"r","e","s","p","o","n","s","e">>, J("obj", << <<<<"d","a","t","a">>,
             J("obj", << <<<<"h","i","t","s">>,
               J("obj", << <<<<"t","o","t","a","l">>, J("num", Len(records))>>,
                           <<<<"h","i","t","s">>, J("arr", [i \in 1..Len(records) |-> hit(records[i])])>> >>)>> >>)>> >>)>> >>)>> >>)
     IN  \E status \in {200, 429, 500} :
           IF status = 200
           THEN \E data \in EnrInputs.answers :
                  LET records == IF JTruthy(Get(data, <<"r","e","s","u","l","t","s">>)) THEN Get(data, <<"r","e","s","u","l","t","s">>).v
                                 ELSE <<>>
                  IN  /\ ePc' = "returned"
                      /\ eLog' = Append(eLog, IF records = <<>> THEN J("null", <<>>)
                                              ELSE formattedResponse(records))
                      /\ responseCache' = IF records = <<>> THEN responseCache
                                          ELSE Append(responseCache,
                                                      <<cacheKey, formattedResponse(records)>>)
           ELSE /\ ePc' = IF status = 429 THEN "limited" ELSE "returned"
                /\ eLog' = IF status = 429 THEN eLog ELSE Append(eLog, J("null", <<>>))
                /\ UNCHANGED responseCache
  /\ UNCHANGED <<eIdx, eOut>>
  /\ UNCHANGED <<varsNorm, varsGc, varsAddr, varsVac, varsLien, varsSort, varsPg, varsTf, varsMain>>

\* the 429 handler: after the wait of REQUEST_DELAY_MS * 2 it returns the
\* result of calling getTexasFileData again with the same arguments; no
\* attempt is counted
EnrBackoff ==
  /\ ePc = "limited"
  /\ ePc' = "call"
  /\ UNCHANGED <<eIdx, eLog, eOut, responseCache>>
  /\ UNCHANGED <<varsNorm, varsGc, varsAddr, varsVac, varsLien, varsSort, varsPg, varsTf, varsMain>>

\* processCSV after the call has returned: the wait, then
\* extractLienInfo(apiData?.records || []), the output row {...row,
\* ...lienInfo}, and the next row or the writing of the file
EnrPush ==
  /\ ePc = "returned"
  /\ LET row == EnrInputs.rows[eIdx]
         apiData == eLog[eIdx]
         argument == IF JTruthy(Get(apiData, <<"r","e","c","o","r","d","s">>)) THEN Get(apiData, <<"r","e","c","o","r","d","s">>)
                     ELSE J("arr", <<>>)
         extracted == EnrExtractLienInfo(argument)
     IN  IF extracted.threw
         THEN /\ ePc' = "rejected"
              /\ UNCHANGED <<eIdx, eOut>>
         ELSE /\ eOut' = Append(eOut, extracted.info @@ row)
              /\ eIdx' = IF eIdx < Len(EnrInputs.rows) THEN eIdx + 1 ELSE eIdx
              /\ ePc' = IF eIdx < Len(EnrInputs.rows) THEN "call" ELSE "write"
  /\ UNCHANGED <<eLog, responseCache>>
  /\ UNCHANGED <<varsNorm, varsGc, varsAddr, varsVac, varsLien, varsSort, varsPg, varsTf, varsMain>>

\* The script awaits one step after the other, so a step that can be taken
\* is taken: every request is answered and every timer fires. Which answer
\* a request gets is up to the server.
SpecEnr ==
  /\ InitEnr
  /\ [][EnrCall \/ EnrResultsGet \/ EnrBackoff \/ EnrPush]_vars
  /\ WF_vars(EnrCall) /\ WF_vars(EnrResultsGet) /\ WF_vars(EnrBackoff) /\ WF_vars(EnrPush)

\* C21: a call of getTexasFileData returns, also while the server answers
\* 429, so every row of the batch gets its output row and the run reaches
\* the writing of the file
C21_EventuallyReturns == <>(ePc = "write")

\* C27: when the formatted response returned for a row holds at least one
\* hit whose type contains a lien keyword, the row's output has lien_present
\* true and lien_count equal to the number of those hits
C27_LienHitsReachTheRow ==
  \A i \in 1..Len(eOut) :
    LET response == eLog[i]
        hits == Values(Get(Get(Get(Get(Get(response, <<"r","e","s","p","o","n","s","e">>), <<"r","e","s","p","o","n","s","e">>), <<"d","a","t","a">>), <<"h","i","t","s">>), <<"h","i","t","s">>))
        lienTypes == {<<"U","c","c"," ","F","i","n","a","n","c","i","n","g">>, <<"T","a","x"," ","L","i","e","n"," ","S","t","a","t","e">>, <<"R","e","l","e","a","s","e">>}
        n == Cardinality({h \in 1..Len(hits) : Get(Get(hits[h], <<"_","s","o","u","r","c","e">>), <<"t","y","p","e">>).v \in lienTypes})
    IN  n > 0 => eOut[i].lien_present /\ eOut[i].lien_count = n

====
